---- MODULE Spec2Model ----
(***************************************************************************)
(* Verification model of the InboxHunter agent.                            *)
(*                                                                         *)
(*   PlatformWebSocket   src/src/api/websocket.py                          *)
(*   InboxHunterAgent    src/src/core/agent.py                             *)
(*   AIAgentOrchestrator src/src/automation/agent_orchestrator.py          *)
(*   CircuitBreaker, retry_with_backoff, RateLimiter                       *)
(*                       src/src/utils/resilience.py                       *)
(*   AgentActionResponse, parse_agent_response                             *)
(*                       src/src/automation/llm_models.py                  *)
(*   ReverseOutreachBot  src/src/bot/orchestrator.py                       *)
(*   AgentUpdater        src/src/core/updater.py                           *)
(*   AgentConfig         src/src/core/config.py                            *)
(*                                                                         *)
(* All coroutines run on one asyncio event loop: the code between two      *)
(* awaits that really suspend is one atomic step, and every action below   *)
(* is such a step.  `await queue.put(..)` on the unbounded queue and a     *)
(* call that raises before it suspends do not end a step.                  *)
(*                                                                         *)
(* Several specifications share the variables; each one exercises one part *)
(* of the program and leaves the other variables at their initial value.   *)
(*   Spec           task dispatch: the two receive paths, stop and cleanup *)
(*   SpecSignup     one signup task, from _execute_signup_task to its      *)
(*                  result, with stop commands and further tasks arriving  *)
(*   SpecPause      task dispatch with pause and resume commands           *)
(*   SpecQueue      the channel with callers that send messages            *)
(*   SpecBackoff    the reconnection logic of the channel alone            *)
(*   SpecReconnect  the channel with a caller that logs and a platform     *)
(*                  that goes down and returns; SpecReconnectFair adds the *)
(*                  fairness of the event loop                             *)
(*   SpecBreaker    a circuit breaker, called directly and through         *)
(*                  with_circuit_breaker                                   *)
(*   SpecRetry      one call of a function wrapped by retry_with_backoff   *)
(*   SpecLimiter    a token bucket and the coroutines that acquire from it *)
(*   SpecLoop       the reasoning loop of execute_signup on a page that    *)
(*                  changes and an LLM that returns any action;            *)
(*                  SpecLoopFair adds that every awaited call returns      *)
(*   SpecReason     one call of _reason_next_action with an LLM that is    *)
(*                  rate limited, and what execute_signup returns          *)
(*   SpecParse      parse_agent_response on the dictionaries an LLM sends  *)
(*   SpecBot        the standalone bot: candidates, the loop over them and *)
(*                  one signup attempt per candidate; SpecBotFair adds     *)
(*                  that every awaited call returns                        *)
(*   SpecUpdater    check, download, verification and application of an    *)
(*                  update                                                 *)
(*   SpecConfig     the agent configuration: save, load and updates from   *)
(*                  the platform                                           *)
(*   SpecRestart    the agent and its channels when the platform sends a   *)
(*                  restart command                                        *)
(*   SpecStart      the agent with a user who chooses Start in the tray    *)
(*                  menu (src/src/ui/tray.py, src/main.py)                 *)
(*   SpecVision     the steps of execute_signup and their use of vision    *)
(***************************************************************************)
EXTENDS Integers, Sequences, FiniteSets, TLC

----------------------------------------------------------------------------
(* Bounds of the model *)

\* messages the callers of _send compose in one run
MaxClock == 2
\* sockets the platform or the network closes in one run
MaxCloses == 2
\* consecutive failed connection attempts in one reconnection episode
MaxAttempts == 7
\* tasks the platform sends in one run
MaxTasks == 3
\* messages of the platform waiting in the socket at one time
MaxInbox == 2
\* seconds of time.time() in one run
MaxNow == 3
\* record_failure calls on one circuit breaker in one run
MaxFailures == 4
\* can_execute calls that return True during one half_open period
MaxAdmitted == 3
\* calls of a function wrapped by with_circuit_breaker awaiting it at once
MaxCalls == 2
\* the largest failure_threshold of a circuit breaker
MaxThreshold == 3
\* the largest recovery_timeout of a circuit breaker, in seconds
MaxRecoveryTimeout == 2
\* the largest half_open_max_calls of a circuit breaker
MaxHalfOpenCalls == 2
\* the largest max_retries of retry_with_backoff
MaxRetries == 3
\* the largest base_delay of retry_with_backoff, in seconds
MaxBaseDelay == 2
\* the largest exponential_base of retry_with_backoff
MaxExponentialBase == 3
\* the values of max_delay of retry_with_backoff, in seconds
MaxDelays == {5, 60}
\* the values random.random() takes are n / JitterGrid, n in 0..JitterGrid-1
JitterGrid == 4
\* coroutines calling RateLimiter.acquire
MaxAcquirers == 2

----------------------------------------------------------------------------
(* Program constants *)

\* `self._ws = None`
None == 0
\* PlatformWebSocket.RECONNECT_DELAY
RECONNECT_DELAY == 5
\* the cap in `min(.., 60)` of _reconnect
MAX_RECONNECT_DELAY == 60
\* AgentState.max_steps
max_steps == 30

VARIABLES
    \* PlatformWebSocket fields
    connected,        \* self._connected
    ws,               \* self._ws: None or the id of a socket
    should_run,       \* self._should_run
    reconnecting,     \* self._reconnecting
    outgoing_queue,   \* self._outgoing_queue (FIFO of message dicts)
    \* PlatformWebSocket coroutines
    first_pc,         \* the connect() called by connect_to_platform
    rc,               \* the coroutine running _reconnect: [pc, attempt, loop]
    receive_loops,    \* sockets with a _receive_loop task waiting in recv()
    spawned,          \* asyncio.create_task(self._reconnect()) not yet started
    disconnect_pc,    \* the coroutine inside disconnect()
    in_flight,        \* per connect(): the message its _flush_queue is sending
    \* environment
    serverUp,         \* websockets.connect succeeds
    wire,             \* the JSON objects the platform has received, in order
    clock,            \* datetime.utcnow(), advancing with each composed message
    composed,         \* messages composed by the callers of _send so far
    nsock,            \* sockets opened so far
    closed,           \* sockets the network or the platform has closed
    enqueued,         \* history: every put on _outgoing_queue, [ts, line]
    delays,           \* history: the delays slept in the current reconnection episode
    \* InboxHunterAgent fields
    status,           \* self.status
    current_task,     \* self._current_task_id (None: no task)
    stop_task,        \* self._stop_task
    stop_agent,       \* self._stop_agent
    ws_client,        \* self._ws_client is not None
    browser,          \* self._browser is not None
    \* InboxHunterAgent coroutines
    path,             \* per receive path: what its coroutine is doing
    handling,         \* per receive path: the task its _handle_task runs
    signup,           \* the _execute_signup_task under study
    \* environment and history
    inbox,            \* messages of the platform that recv() has not returned yet
    issued,           \* tasks the platform has sent so far
    handed,           \* history: the calls of send_task_result, in order
    finished,         \* history: one record per return of _handle_task
    \* resilience utilities
    now,              \* time.time(), in seconds
    circuit_breaker,  \* a CircuitBreaker: its parameters and fields
    cb_calls,         \* calls of a wrapped function that are awaiting it
    cb_log,           \* history: the calls made on the circuit breaker
    retry,            \* a call of a function wrapped by retry_with_backoff
    limiter,          \* a RateLimiter, its lock and the callers of acquire()
    \* AIAgentOrchestrator
    state,            \* self.state (an AgentState) and the place in execute_signup
    \* further components
    llm,              \* the call of _reason_next_action under study and what execute_signup makes of it
    parsed,           \* a call of parse_agent_response: its argument and how it ended
    bot,              \* a ReverseOutreachBot: its run(), its browser and its datastore
    updater,          \* an AgentUpdater, the update the platform offers and the files on disk
    config,           \* an AgentConfig object in memory
    config_files,     \* agent_config.json and config/config.yaml on disk
    config_op,        \* history: the last operation on the configuration
    vision,           \* the vision bookkeeping of execute_signup: last action and use_vision
    agent             \* an InboxHunterAgent that is told to restart: its fields, channels and coroutines

chanVars == <<connected, ws, should_run, reconnecting, outgoing_queue>>
coVars   == <<first_pc, rc, receive_loops, spawned, disconnect_pc, in_flight>>
netVars  == <<serverUp, wire, clock, composed, nsock, closed, enqueued, delays>>
fieldVars == <<status, current_task, stop_task, stop_agent, ws_client, browser>>
taskVars  == <<path, handling, inbox, issued, handed, finished>>
agentVars == <<fieldVars, taskVars, signup>>
channelVars == <<chanVars, coVars, netVars>>
utilVars == <<now, circuit_breaker, cb_calls, cb_log, retry, limiter>>
loopVars == <<state, agent>>
appVars == <<llm, parsed, bot, updater, config, config_files, config_op, vision>>
libVars == <<utilVars, loopVars, appVars>>
vars == <<channelVars, agentVars, libVars>>

\* the value of a component that a specification does not exercise
Unused == [pc |-> "idle"]

\* the two places that call recv() and dispatch what it returns:
\* _receive_loop (the task connect() creates) and process_messages (called
\* by the loop of run())
Paths == {"receive_loop", "process_messages"}

\* no task in a _handle_task
NoTask == [task_id |-> None, type |-> "none"]

\* no _execute_signup_task under study
NoSignup ==
    [pc |-> "idle", current_step |-> 1, complete |-> FALSE, success |-> FALSE,
     result |-> [success |-> FALSE, stopped |-> FALSE], tripped |-> 0,
     commanded |-> FALSE, further |-> FALSE, loop_exit |-> "none",
     browser_left |-> FALSE, requested |-> FALSE]

\* the places of _execute_signup_task at which no checkpoint has found the
\* stop flag set yet
SignupRunning ==
    {"start", "init", "navigate", "detect", "analyze", "execute", "sleep", "step",
     "between", "observe"}

\* history: a stop command handled while the loop of execute_signup runs
\* (commanded), or while the executor runs at all (requested)
note_command(s) ==
    LET t == [s EXCEPT !.requested = @ \/ s.pc \in SignupRunning]
    IN IF s.pc \in {"sleep", "step", "between"} THEN [t EXCEPT !.commanded = TRUE] ELSE t

----------------------------------------------------------------------------
(* Resilience utilities: the objects of src/src/utils/resilience.py *)

\* CircuitBreaker.__init__: closed, nothing counted
CircuitBreaker(failure_threshold, recovery_timeout, half_open_max_calls) ==
    [failure_threshold |-> failure_threshold,
     recovery_timeout |-> recovery_timeout,
     half_open_max_calls |-> half_open_max_calls,
     state |-> "closed", failure_count |-> 0, last_failure_time |-> None,
     half_open_calls |-> 0]

\* can_execute, were the recovery timeout compared with `>`
can_execute_after_timeout(cb, t) ==
    CASE cb.state = "closed" -> [returns |-> TRUE, cb |-> cb]
      [] cb.state = "open" ->
            IF t - cb.last_failure_time > cb.recovery_timeout
            THEN [returns |-> TRUE,
                  cb |-> [cb EXCEPT !.state = "half_open", !.half_open_calls = 0]]
            ELSE [returns |-> FALSE, cb |-> cb]
      [] OTHER -> [returns |-> cb.half_open_calls < cb.half_open_max_calls, cb |-> cb]

\* record_success, were the trial count compared with `>`
record_success_one_more(cb) ==
    IF cb.state = "half_open"
    THEN IF cb.half_open_calls + 1 > cb.half_open_max_calls
         THEN [cb EXCEPT !.half_open_calls = @ + 1, !.state = "closed",
                         !.failure_count = 0]
         ELSE [cb EXCEPT !.half_open_calls = @ + 1]
    ELSE [cb EXCEPT !.failure_count = 0]

\* record_failure, were the threshold compared with `>`
record_failure_above_threshold(cb, t) ==
    LET counted == [cb EXCEPT !.failure_count = @ + 1, !.last_failure_time = t]
    IN  IF cb.state = "half_open"
        THEN [counted EXCEPT !.state = "open"]
        ELSE IF counted.failure_count > cb.failure_threshold
             THEN [counted EXCEPT !.state = "open"]
             ELSE counted

\* CircuitBreaker.can_execute at time t: what it returns and the breaker
\* it leaves
can_execute(cb, t) ==
    CASE cb.state = "closed" -> [returns |-> TRUE, cb |-> cb]
      [] cb.state = "open" ->
            IF t - cb.last_failure_time >= cb.recovery_timeout
            THEN [returns |-> TRUE,
                  cb |-> [cb EXCEPT !.state = "half_open", !.half_open_calls = 0]]
            ELSE [returns |-> FALSE, cb |-> cb]
      [] OTHER -> [returns |-> cb.half_open_calls < cb.half_open_max_calls, cb |-> cb]

\* CircuitBreaker.record_success
record_success(cb) ==
    IF cb.state = "half_open"
    THEN IF cb.half_open_calls + 1 >= cb.half_open_max_calls
         THEN [cb EXCEPT !.half_open_calls = @ + 1, !.state = "closed",
                         !.failure_count = 0]
         ELSE [cb EXCEPT !.half_open_calls = @ + 1]
    ELSE [cb EXCEPT !.failure_count = 0]

\* CircuitBreaker.record_failure at time t
record_failure(cb, t) ==
    LET counted == [cb EXCEPT !.failure_count = @ + 1, !.last_failure_time = t]
    IN  IF cb.state = "half_open"
        THEN [counted EXCEPT !.state = "open"]
        ELSE IF counted.failure_count >= cb.failure_threshold
             THEN [counted EXCEPT !.state = "open"]
             ELSE counted

\* history of a breaker nobody has called: `consecutive` counts the
\* record_failure calls since the last record_success, `failed_at` is the
\* time of the last record_failure, `trial_successes` and `admitted` count
\* the record_success calls and the can_execute calls that returned True
\* since the breaker last became half_open, and `last` is the latest call,
\* made `elapsed` seconds after the last record_failure
NoCalls ==
    [consecutive |-> 0, failed_at |-> None, trial_successes |-> 0, admitted |-> 0,
     last |-> [op |-> "none", before |-> "closed", elapsed |-> 0, returned |-> TRUE]]

\* the history after the call `op` at time t took the breaker from cb to
\* after and returned `returned`
logged(log, op, cb, after, t, returned) ==
    LET entered == cb.state # "half_open" /\ after.state = "half_open"
        inside  == cb.state = "half_open"
    IN  [consecutive |-> CASE op = "record_failure" -> log.consecutive + 1
                          [] op = "record_success" -> 0
                          [] OTHER -> log.consecutive,
         failed_at |-> IF op = "record_failure" THEN t ELSE log.failed_at,
         trial_successes |-> CASE entered -> 0
                              [] inside /\ op = "record_success" -> log.trial_successes + 1
                              [] OTHER -> log.trial_successes,
         admitted |-> CASE entered -> 1
                       [] inside /\ op = "can_execute" /\ returned -> log.admitted + 1
                       [] OTHER -> log.admitted,
         last |-> [op |-> op, before |-> cb.state, elapsed |-> t - log.failed_at,
                   returned |-> returned]]

\* no call of a function wrapped by retry_with_backoff: the parameters
\* are the defaults of the decorator.  `attempt` is the loop variable,
\* `outcomes` the outcome of every invocation of the function so far,
\* `delays` the delays of line 124, before jitter, `sleep` the argument of
\* the latest sleep in units of 1 / (2 * JitterGrid) second, and `raised`
\* the invocation whose exception left the wrapper (0: none)
NoRetry ==
    [max_retries |-> 3, base_delay |-> 1, max_delay |-> 60, exponential_base |-> 2,
     jitter |-> TRUE, pc |-> "idle", attempt |-> 0, outcomes |-> <<>>,
     last_exception |-> None, delays |-> <<>>, sleep |-> 0, raised |-> 0]

\* the delay, were the exponent the number of the next attempt
retry_delay_next_attempt(r, attempt) ==
    LET d == r.base_delay * (r.exponential_base ^ (attempt + 1))
    IN  IF d < r.max_delay THEN d ELSE r.max_delay

\* line 124: min(base_delay * (exponential_base ** attempt), max_delay)
retry_delay(r, attempt) ==
    LET d == r.base_delay * (r.exponential_base ^ attempt)
    IN  IF d < r.max_delay THEN d ELSE r.max_delay

\* line 128: delay * (0.5 + random.random()), where random.random() drew
\* n / JitterGrid from [0.0, 1.0); in units of 1 / (2 * JitterGrid) second
jittered(delay, n) == delay * (JitterGrid + 2 * n)

\* RateLimiter.__init__ at time t, with rate = 1 / period tokens per
\* second: `tokens` is in units of 1 / period token, `lock` is the caller
\* holding self._lock (0: free), who sleeps until `wake_at` when it is
\* set, and `completed` counts the calls of acquire() that have returned
RateLimiter(period, burst, t) ==
    [period |-> period, burst |-> burst, tokens |-> burst * period,
     last_update |-> t, lock |-> 0, wake_at |-> None, completed |-> 0,
     created |-> t]

\* the selectors the LLM names in its actions
Selectors == {"#a", "#b"}

\* an action without a selector (None, or "" from _parse_llm_response)
NoSelector == ""

\* no action decided
NoAction == [action_type |-> "none", selector |-> NoSelector, captcha |-> FALSE]

\* _observe_page returned {} after an error
NoObservation ==
    [kind |-> "empty", has_success_indicator |-> FALSE, has_error_messages |-> FALSE]

\* AgentState.__init__, and the orchestrator on a page that shows a success
\* indicator or not.  `filled` is len(fields_filled) > 0, `failed` counts
\* per selector the actions of actions_taken that failed, `captcha_waits`
\* is the number of wait actions with "captcha" in their reasoning that end
\* actions_taken (3: three or more); page_state and next_action are the
\* locals of execute_signup.  History: `iterations` counts the loop
\* iterations begun, `decisions` the calls of _reason_next_action,
\* `barren` says that no observation showed a form input or a navigation
\* button, `loop_exit` why the loop ended and `indicator_at_end` whether
\* the page showed a success indicator when it ended
AgentState(indicator) ==
    [pc |-> "top", current_step |-> 1, complete |-> FALSE, success |-> FALSE,
     filled |-> FALSE, failed |-> [sel \in Selectors |-> 0], captcha_waits |-> 0,
     page_state |-> NoObservation, next_action |-> NoAction,
     indicator |-> indicator,
     iterations |-> 0, decisions |-> 0, barren |-> TRUE, loop_exit |-> "none",
     indicator_at_end |-> FALSE]

\* no execute_signup under study
NoLoop == [AgentState(FALSE) EXCEPT !.pc = "idle"]

----------------------------------------------------------------------------
(* Outbound messages, as the code composes them *)

\* _send_status: {"type": "status", "data": {status, agent_id, timestamp}}
status_message(st, t) ==
    [type |-> "status",
     data |-> [status |-> st, agent_id |-> "agent", timestamp |-> t]]

\* _heartbeat_loop: {"type": "heartbeat", "timestamp": ...}
heartbeat_message(t) ==
    [type |-> "heartbeat", timestamp |-> t]

\* send_task_result: {"type": "result", "data": {task_id, result, timestamp}}
result_message(task_id, result, t) ==
    [type |-> "result",
     data |-> [task_id |-> task_id, result |-> result, timestamp |-> t]]

\* send_log: {"type": "log", "data": {level, message, timestamp}}
log_message(level, text, t) ==
    [type |-> "log",
     data |-> [level |-> level, message |-> text, timestamp |-> t]]

\* request_task: {"type": "request_task", "data": {agent_id, timestamp}}
request_task_message(t) ==
    [type |-> "request_task",
     data |-> [agent_id |-> "agent", timestamp |-> t]]

\* the composition time a message carries
Timestamp(m) ==
    IF "data" \in DOMAIN m THEN m.data.timestamp ELSE m.timestamp

Timestamps(s) == {Timestamp(s[i]) : i \in 1..Len(s)}

\* position of the message composed at t in s (0 when absent)
PosOf(s, t) ==
    IF t \in Timestamps(s)
    THEN CHOOSE i \in 1..Len(s) : Timestamp(s[i]) = t
    ELSE 0

----------------------------------------------------------------------------
(* PlatformWebSocket: the outbound path *)

\* `await self._ws.send(..)` returns normally on an open socket and raises
\* on a closed one
ws_send_ok == ws # None /\ ws \notin closed

\* _send(message): queue when not connected; else transmit, and queue
\* when the transmission raises
send(message) ==
    IF ~connected \/ ws = None
    THEN /\ outgoing_queue' = Append(outgoing_queue, message)
         /\ enqueued' = enqueued \cup {[ts |-> Timestamp(message), line |-> 267]}
         /\ wire' = wire
    ELSE IF ws_send_ok
         THEN /\ wire' = Append(wire, message)
              /\ UNCHANGED <<outgoing_queue, enqueued>>
         ELSE /\ outgoing_queue' = Append(outgoing_queue, message)
              /\ enqueued' = enqueued \cup {[ts |-> Timestamp(message), line |-> 275]}
              /\ wire' = wire

\* a caller composes a message at the current time and hands it to _send
compose(message) ==
    /\ composed < MaxClock
    /\ composed' = composed + 1
    /\ clock' = clock + 1
    /\ send(message)
    /\ UNCHANGED <<connected, ws, should_run, reconnecting, coVars,
                   serverUp, nsock, closed, delays>>
    /\ UNCHANGED <<agentVars, libVars>>

\* send_log(level, message)
send_log == compose(log_message("info", "text", clock + 1))

\* request_task()
request_task == compose(request_task_message(clock + 1))

\* send_task_result(task_id, result)
send_task_result == compose(result_message("t1", [success |-> TRUE], clock + 1))

\* one round of _heartbeat_loop after its sleep
heartbeat_loop ==
    /\ should_run
    /\ connected
    /\ compose(heartbeat_message(clock + 1))

\* _flush_queue, from the loop test to the next await, for the connect()
\* of caller c.  `while not empty`: get_nowait, then `if self._ws` the send
\* on socket sock begins; with _ws None the messages are taken out one
\* after the other and none is sent.  goes_on: a send is in progress.
flush_queue_next(c, q, sock, goes_on) ==
    IF q = <<>>
    THEN /\ outgoing_queue' = q
         /\ in_flight' = [in_flight EXCEPT ![c] = <<>>]
         /\ goes_on = FALSE
    ELSE IF sock # None
         THEN /\ outgoing_queue' = Tail(q)
              /\ in_flight' = [in_flight EXCEPT ![c] = <<[msg |-> Head(q), sock |-> sock]>>]
              /\ goes_on = TRUE
         ELSE /\ outgoing_queue' = <<>>
              /\ in_flight' = [in_flight EXCEPT ![c] = <<>>]
              /\ goes_on = FALSE

\* _flush_queue, when the send in progress ends: on an open socket the
\* message is on the wire and the loop goes round; on a closed socket the
\* send raises, the error is logged and the loop is left
flush_queue_sent(c, goes_on) ==
    /\ in_flight[c] # <<>>
    /\ LET f == in_flight[c][1]
       IN  IF f.sock \notin closed
           THEN /\ wire' = Append(wire, f.msg)
                /\ flush_queue_next(c, outgoing_queue, ws, goes_on)
           ELSE /\ wire' = wire
                /\ outgoing_queue' = outgoing_queue
                /\ in_flight' = [in_flight EXCEPT ![c] = <<>>]
                /\ goes_on = FALSE

----------------------------------------------------------------------------
(* PlatformWebSocket: connect, reconnect, disconnect *)

Idle == [pc |-> "idle", attempt |-> 0, loop |-> 0]

\* connect(), lines 100-118, when websockets.connect succeeds: the socket
\* is opened, _connected set, the status message sent on the fresh socket,
\* the receive loop created; _flush_queue comes next, and returns without
\* suspending when the queue is empty
connect_opened(c, goes_on) ==
    /\ flush_queue_next(c, outgoing_queue, nsock + 1, goes_on)
    /\ serverUp
    /\ nsock' = nsock + 1
    /\ ws' = nsock + 1
    /\ connected' = TRUE
    /\ clock' = clock
    /\ wire' = Append(wire, status_message("connected", clock))
    /\ receive_loops' = receive_loops \cup {nsock + 1}

\* the callers of connect()
Callers == {"first", "reconnect"}

\* (mutant of backoff_delay: the exponent is the attempt number itself)
backoff_delay_exponent_off_by_one(attempt) ==
    LET d == RECONNECT_DELAY * (2 ^ attempt)
    IN  IF d < MAX_RECONNECT_DELAY THEN d ELSE MAX_RECONNECT_DELAY

\* delay = min(self.RECONNECT_DELAY * (2 ** (attempt - 1)), 60)
backoff_delay(attempt) ==
    LET d == RECONNECT_DELAY * (2 ^ (attempt - 1))
    IN  IF d < MAX_RECONNECT_DELAY THEN d ELSE MAX_RECONNECT_DELAY

\* connect_to_platform() calls connect()
connect_first ==
    /\ first_pc = "new"
    /\ first_pc' = "connecting"
    /\ UNCHANGED <<chanVars, rc, receive_loops, spawned, disconnect_pc, in_flight, netVars>>
    /\ UNCHANGED <<agentVars, libVars>>

\* the first connect() succeeds
connect_first_ok ==
    /\ first_pc = "connecting"
    /\ \E goes_on \in BOOLEAN :
          /\ connect_opened("first", goes_on)
          /\ first_pc' = IF goes_on THEN "flushing" ELSE "done"
    /\ UNCHANGED <<should_run, reconnecting, rc, spawned,
                   disconnect_pc, serverUp, composed, closed, enqueued, delays>>
    /\ UNCHANGED <<agentVars, libVars>>

\* the first connect() fails: _connected = False, return False; the agent
\* goes offline and run() returns
connect_first_failed ==
    /\ first_pc = "connecting"
    /\ ~serverUp
    /\ connected' = FALSE
    /\ first_pc' = "done"
    /\ UNCHANGED <<ws, should_run, reconnecting, outgoing_queue, rc,
                   receive_loops, spawned, disconnect_pc, in_flight, netVars>>
    /\ UNCHANGED <<agentVars, libVars>>

\* the connect() of _reconnect succeeds; once its _flush_queue has
\* returned, connect() returns True and _reconnect resets _reconnecting
reconnect_ok ==
    /\ rc.pc = "connecting"
    /\ \E goes_on \in BOOLEAN :
          /\ connect_opened("reconnect", goes_on)
          /\ rc' = IF goes_on THEN [rc EXCEPT !.pc = "flushing"] ELSE Idle
          /\ reconnecting' = IF goes_on THEN reconnecting ELSE FALSE
          /\ delays' = IF goes_on THEN delays ELSE <<>>
    /\ UNCHANGED <<should_run, first_pc, spawned,
                   disconnect_pc, serverUp, composed, closed, enqueued>>
    /\ UNCHANGED <<agentVars, libVars>>

\* the connect() of _reconnect fails: _connected = False, and _reconnect
\* sleeps for the backoff delay
reconnect_failed ==
    /\ rc.pc = "connecting"
    /\ ~serverUp
    /\ rc.attempt < MaxAttempts
    /\ connected' = FALSE
    /\ rc' = [rc EXCEPT !.pc = "sleeping"]
    /\ delays' = Append(delays, backoff_delay(rc.attempt))
    /\ UNCHANGED <<ws, should_run, reconnecting, outgoing_queue, first_pc,
                   receive_loops, spawned, disconnect_pc, in_flight,
                   serverUp, wire, clock, composed, nsock, closed, enqueued>>
    /\ UNCHANGED <<agentVars, libVars>>

\* _reconnect wakes from its sleep: `while self._should_run`
reconnect_wake ==
    /\ rc.pc = "sleeping"
    /\ IF should_run
       THEN rc' = [rc EXCEPT !.pc = "connecting", !.attempt = rc.attempt + 1]
            /\ UNCHANGED <<reconnecting, delays>>
       ELSE rc' = Idle /\ reconnecting' = FALSE /\ delays' = <<>>
    /\ UNCHANGED <<connected, ws, should_run, outgoing_queue, first_pc,
                   receive_loops, spawned, disconnect_pc, in_flight,
                   serverUp, wire, clock, composed, nsock, closed, enqueued>>
    /\ UNCHANGED <<agentVars, libVars>>

\* _flush_queue inside the first connect()
flush_queue_first ==
    /\ first_pc = "flushing"
    /\ \E goes_on \in BOOLEAN :
          /\ flush_queue_sent("first", goes_on)
          /\ first_pc' = IF goes_on THEN "flushing" ELSE "done"
    /\ UNCHANGED <<connected, ws, should_run, reconnecting, rc, receive_loops,
                   spawned, disconnect_pc, serverUp, clock, composed, nsock,
                   closed, enqueued, delays>>
    /\ UNCHANGED <<agentVars, libVars>>

\* _flush_queue inside the connect() of _reconnect; when it returns,
\* connect() returns True and _reconnect resets _reconnecting
flush_queue_reconnect ==
    /\ rc.pc = "flushing"
    /\ \E goes_on \in BOOLEAN :
          /\ flush_queue_sent("reconnect", goes_on)
          /\ rc' = IF goes_on THEN rc ELSE Idle
          /\ reconnecting' = IF goes_on THEN reconnecting ELSE FALSE
          /\ delays' = IF goes_on THEN delays ELSE <<>>
    /\ UNCHANGED <<connected, ws, should_run, first_pc, receive_loops,
                   spawned, disconnect_pc, serverUp, clock, composed, nsock,
                   closed, enqueued>>
    /\ UNCHANGED <<agentVars, libVars>>

\* _reconnect(), from its call to its first await; `loop` is the socket of
\* the receive loop that calls it, None for the task process_messages made
reconnect_enter(loop) ==
    IF reconnecting
    THEN UNCHANGED <<reconnecting, rc, delays>>
    ELSE IF should_run
         THEN /\ reconnecting' = TRUE
              /\ rc' = [pc |-> "connecting", attempt |-> 1, loop |-> loop]
              /\ delays' = <<>>
         ELSE UNCHANGED <<reconnecting, rc, delays>>

\* _receive_loop: recv() on a closed socket raises ConnectionClosed;
\* _connected = False, _reconnect() when _should_run, then break
receive_loop_closed ==
    \E s \in receive_loops \cap closed :
        /\ receive_loops' = receive_loops \ {s}
        /\ connected' = FALSE
        /\ IF should_run
           THEN reconnect_enter(s)
           ELSE UNCHANGED <<reconnecting, rc, delays>>
        /\ UNCHANGED <<ws, should_run, outgoing_queue, first_pc, spawned,
                       disconnect_pc, in_flight, serverUp, wire, clock, composed,
                       nsock, closed, enqueued>>
        /\ UNCHANGED <<agentVars, libVars>>

\* process_messages: recv() on the closed socket raises ConnectionClosed;
\* _connected = False and asyncio.create_task(self._reconnect())
process_messages_closed ==
    /\ connected
    /\ ws # None
    /\ ws \in closed
    /\ connected' = FALSE
    /\ spawned' = IF should_run THEN spawned + 1 ELSE spawned
    /\ UNCHANGED <<ws, should_run, reconnecting, outgoing_queue, first_pc, rc,
                   receive_loops, disconnect_pc, in_flight, netVars>>
    /\ UNCHANGED <<agentVars, libVars>>

\* the task process_messages created starts running _reconnect
reconnect_task ==
    /\ spawned > 0
    /\ spawned' = spawned - 1
    /\ reconnect_enter(None)
    /\ UNCHANGED <<connected, ws, should_run, outgoing_queue, first_pc,
                   receive_loops, disconnect_pc, in_flight,
                   serverUp, wire, clock, composed, nsock, closed, enqueued>>
    /\ UNCHANGED <<agentVars, libVars>>

\* disconnect(), up to its first await: the flags are cleared and
\* _receive_task, the receive loop of the latest connect, is cancelled; a
\* _reconnect running inside that task is cancelled with it and leaves
\* _reconnecting set
disconnect ==
    /\ disconnect_pc = "idle"
    /\ should_run
    /\ first_pc = "done"
    /\ should_run' = FALSE
    /\ connected' = FALSE
    /\ receive_loops' = receive_loops \ {nsock}
    /\ rc' = IF rc.pc # "idle" /\ rc.loop # None /\ rc.loop = nsock THEN Idle ELSE rc
    /\ disconnect_pc' = "closing"
    /\ UNCHANGED <<ws, reconnecting, outgoing_queue, first_pc, spawned, in_flight,
                   netVars>>
    /\ UNCHANGED <<agentVars, libVars>>

\* disconnect(), after the cancelled tasks have ended: the socket is
\* closed and _ws = None
disconnect_close ==
    /\ disconnect_pc = "closing"
    /\ closed' = IF ws # None THEN closed \cup {ws} ELSE closed
    /\ ws' = None
    /\ disconnect_pc' = "done"
    /\ UNCHANGED <<connected, should_run, reconnecting, outgoing_queue, first_pc,
                   rc, receive_loops, spawned, in_flight,
                   serverUp, wire, clock, composed, nsock, enqueued, delays>>
    /\ UNCHANGED <<agentVars, libVars>>

\* the sockets the program still holds: the current one, those a receive
\* loop reads and those a send of _flush_queue is in progress on
InUse ==
    {s \in 1..nsock : \/ s = ws
                      \/ s \in receive_loops
                      \/ \E c \in Callers : in_flight[c] # <<>> /\ in_flight[c][1].sock = s}

\* the platform or the network closes a socket the program holds
socket_closed ==
    /\ Cardinality(closed) < MaxCloses
    /\ \E s \in InUse \ closed : closed' = closed \cup {s}
    /\ UNCHANGED <<chanVars, coVars, serverUp, wire, clock, composed, nsock,
                   enqueued, delays>>
    /\ UNCHANGED <<agentVars, libVars>>

\* the platform becomes unreachable, or reachable again
server_down ==
    /\ serverUp
    /\ serverUp' = FALSE
    /\ UNCHANGED <<chanVars, coVars, wire, clock, composed, nsock, closed,
                   enqueued, delays>>
    /\ UNCHANGED <<agentVars, libVars>>

server_up ==
    /\ ~serverUp
    /\ serverUp' = TRUE
    /\ UNCHANGED <<chanVars, coVars, wire, clock, composed, nsock, closed,
                   enqueued, delays>>
    /\ UNCHANGED <<agentVars, libVars>>

\* InboxHunterAgent.__init__ and PlatformWebSocket.__init__
Init ==
    /\ connected = FALSE
    /\ ws = None
    /\ should_run = TRUE
    /\ reconnecting = FALSE
    /\ outgoing_queue = <<>>
    /\ first_pc = "new"
    /\ rc = Idle
    /\ receive_loops = {}
    /\ spawned = 0
    /\ disconnect_pc = "idle"
    /\ in_flight = [c \in Callers |-> <<>>]
    /\ serverUp = TRUE
    /\ wire = <<>>
    /\ clock = 0
    /\ composed = 0
    /\ nsock = 0
    /\ closed = {}
    /\ enqueued = {}
    /\ delays = <<>>
    /\ status = "idle"
    /\ current_task = None
    /\ stop_task = FALSE
    /\ stop_agent = FALSE
    /\ ws_client = FALSE
    /\ browser = FALSE
    /\ path = [p \in Paths |-> "none"]
    /\ handling = [p \in Paths |-> NoTask]
    /\ signup = NoSignup
    /\ inbox = <<>>
    /\ issued = 0
    /\ handed = <<>>
    /\ finished = {}
    /\ now = 0
    /\ circuit_breaker = CircuitBreaker(5, 60, 3)
    /\ cb_calls = 0
    /\ cb_log = NoCalls
    /\ retry = NoRetry
    /\ limiter = RateLimiter(2, 5, 0)
    /\ state = NoLoop
    /\ llm = Unused
    /\ parsed = Unused
    /\ bot = Unused
    /\ updater = Unused
    /\ config = Unused
    /\ config_files = Unused
    /\ config_op = Unused
    /\ vision = Unused
    /\ agent = Unused

\* the channel with callers that compose messages; the platform stays
\* reachable
NextQueue ==
    \/ send_log
    \/ request_task
    \/ send_task_result
    \/ heartbeat_loop
    \/ connect_first
    \/ connect_first_ok
    \/ reconnect_ok
    \/ flush_queue_first
    \/ flush_queue_reconnect
    \/ receive_loop_closed
    \/ process_messages_closed
    \/ reconnect_task
    \/ disconnect
    \/ disconnect_close
    \/ socket_closed

SpecQueue == Init /\ [][NextQueue]_vars

\* the reconnection logic alone: nothing is sent but the status message of
\* connect(); the platform goes down and comes back
NextBackoff ==
    \/ connect_first
    \/ connect_first_ok
    \/ connect_first_failed
    \/ reconnect_ok
    \/ reconnect_failed
    \/ reconnect_wake
    \/ receive_loop_closed
    \/ process_messages_closed
    \/ reconnect_task
    \/ disconnect
    \/ disconnect_close
    \/ socket_closed
    \/ server_down
    \/ server_up

SpecBackoff == Init /\ [][NextBackoff]_vars

\* the channel with a caller that logs; the platform goes down and comes
\* back
NextReconnect ==
    \/ send_log
    \/ connect_first
    \/ connect_first_ok
    \/ connect_first_failed
    \/ reconnect_ok
    \/ reconnect_failed
    \/ reconnect_wake
    \/ flush_queue_first
    \/ flush_queue_reconnect
    \/ receive_loop_closed
    \/ process_messages_closed
    \/ reconnect_task
    \/ disconnect
    \/ disconnect_close
    \/ socket_closed
    \/ server_down
    \/ server_up

SpecReconnect == Init /\ [][NextReconnect]_vars

\* the event loop runs every coroutine that is ready: a connect() in flight
\* completes, a sleep ends, a task that was created starts, and a recv() on
\* a closed socket raises
SpecReconnectFair ==
    /\ SpecReconnect
    /\ WF_vars(connect_first)
    /\ WF_vars(connect_first_ok)
    /\ WF_vars(connect_first_failed)
    /\ WF_vars(reconnect_ok)
    /\ WF_vars(reconnect_failed)
    /\ WF_vars(reconnect_wake)
    /\ WF_vars(flush_queue_first)
    /\ WF_vars(flush_queue_reconnect)
    /\ WF_vars(receive_loop_closed)
    /\ WF_vars(process_messages_closed)
    /\ WF_vars(reconnect_task)
    /\ WF_vars(disconnect_close)

----------------------------------------------------------------------------
(* InboxHunterAgent: task dispatch                                         *)
(*                                                                         *)
(* agent.py calls send_task_started, send_task_progress, send_scraped_links *)
(* and the keyword forms of send_task_result and send_log on the channel.  *)
(* The channel class that has them is not in src/; they are modelled as    *)
(* the interface the specification lists (section 9): each hands one       *)
(* message to the channel.                                                 *)

\* the kinds of task message: _handle_task has a branch for "signup", one
\* for "scrape" and one for every other type
TaskTypes == {"signup", "scrape", "unknown"}

task_message(task_id, type) == [type |-> "task", task_id |-> task_id, task_type |-> type]

\* data.command of a command message: stop, stop_task and cancel_task all
\* set the per-task stop flag
command_message(command) == [type |-> "command", command |-> command]

\* the channel interface as the agent calls it: send_task_result(task_id=,
\* result=, success=, error=) hands one result message to the channel
channel_send_task_result(task_id, success) ==
    handed' = Append(handed, [task_id |-> task_id, success |-> success])

\* the result messages handed to the channel for a task
ResultsFor(h, task_id) == Cardinality({i \in 1..Len(h) : h[i].task_id = task_id})

\* _handle_task, the finally block: the marker is cleared, the task stop
\* flag reset, the status set back unless the agent is stopping
handle_task_finally(p) ==
    /\ current_task' = None
    /\ stop_task' = FALSE
    /\ status' = IF stop_agent THEN status ELSE "connected"
    /\ handling' = [handling EXCEPT ![p] = NoTask]
    /\ finished' = finished \cup
           {[task_id |-> handling[p].task_id, marker |-> current_task',
             status |-> status', stop_agent |-> stop_agent]}

\* _handle_task, from its call to the first await of the executor: marker
\* set, stop flag reset, status running, send_task_started.  A task of
\* another type has no executor: its failure result is sent and
\* _handle_task returns without suspending.
handle_task(p, m) ==
    IF m.task_type \in {"signup", "scrape"}
    THEN /\ current_task' = m.task_id
         /\ stop_task' = FALSE
         /\ status' = "running"
         /\ handling' = [handling EXCEPT ![p] = [task_id |-> m.task_id, type |-> m.task_type]]
         /\ path' = [path EXCEPT ![p] = "handling"]
         /\ UNCHANGED <<handed, finished, signup>>
    ELSE /\ current_task' = None
         /\ stop_task' = FALSE
         /\ status' = IF stop_agent THEN "running" ELSE "connected"
         /\ IF ws_client
            THEN channel_send_task_result(m.task_id, FALSE)
            ELSE handed' = handed
         /\ finished' = finished \cup
                {[task_id |-> m.task_id, marker |-> current_task',
                  status |-> status', stop_agent |-> stop_agent]}
         /\ UNCHANGED <<handling, path, signup>>

\* _handle_command: stop, stop_task and cancel_task set the task stop
\* flag, pause and resume set the status
handle_command(p, m) ==
    /\ IF m.command \in {"stop", "stop_task", "cancel_task"}
       THEN /\ stop_task' = TRUE
            /\ signup' = note_command(signup)
       ELSE UNCHANGED <<stop_task, signup>>
    /\ status' = CASE m.command = "pause" -> "paused"
                   [] m.command = "resume" -> "connected"
                   [] OTHER -> status
    /\ UNCHANGED <<current_task, path, handling, handed, finished>>

\* _handle_message: the callback of the message's type is awaited inline
handle_message(p, m) ==
    IF m.type = "task" THEN handle_task(p, m) ELSE handle_command(p, m)

\* _receive_loop: recv() returns a message and _handle_message is awaited
receive_loop ==
    /\ path["receive_loop"] = "recv"
    /\ inbox # <<>>
    /\ inbox' = Tail(inbox)
    /\ handle_message("receive_loop", Head(inbox))
    /\ UNCHANGED <<stop_agent, ws_client, browser, issued, channelVars, libVars>>

\* run(): `while not self._stop_agent` calls process_messages, whose
\* recv() returns a message within the timeout
process_messages ==
    /\ path["process_messages"] = "recv"
    /\ ~stop_agent
    /\ ws_client
    /\ inbox # <<>>
    /\ inbox' = Tail(inbox)
    /\ handle_message("process_messages", Head(inbox))
    /\ UNCHANGED <<stop_agent, ws_client, browser, issued, channelVars, libVars>>

\* the executor of a signup or scrape task returns a result or raises:
\* _handle_task reports the result (the except block reports a failure),
\* runs its finally block and returns to the receive path
executor_returns(p) ==
    /\ path[p] = "handling"
    /\ \E outcome \in {"success", "failure", "raised"} :
          IF ws_client
          THEN channel_send_task_result(handling[p].task_id, outcome = "success")
          ELSE handed' = handed
    /\ handle_task_finally(p)
    /\ path' = [path EXCEPT ![p] = "recv"]
    /\ UNCHANGED <<stop_agent, ws_client, browser, inbox, issued, signup, channelVars, libVars>>

\* stop(), called from the UI thread or a signal handler
stop ==
    /\ ~stop_agent
    /\ stop_agent' = TRUE
    /\ stop_task' = TRUE
    /\ status' = "stopping"
    /\ UNCHANGED <<current_task, ws_client, browser, taskVars, signup, channelVars, libVars>>

\* run(): the loop sees _stop_agent and the finally block calls cleanup(),
\* which closes the browser first
run_loop_exit ==
    /\ path["process_messages"] = "recv"
    /\ stop_agent
    /\ path' = [path EXCEPT !["process_messages"] = "cleanup"]
    /\ browser' = FALSE
    /\ UNCHANGED <<status, current_task, stop_task, stop_agent, ws_client,
                   handling, inbox, issued, handed, finished, signup, channelVars, libVars>>

\* cleanup(), after the browser: PlatformWebSocket.disconnect() cancels
\* the receive task; a _handle_task running in it gets CancelledError at
\* the await of its executor, which `except Exception` does not catch, so
\* only its finally block runs.  Then _ws_client = None and status idle.
cleanup ==
    /\ path["process_messages"] = "cleanup"
    /\ IF path["receive_loop"] = "handling"
       THEN /\ current_task' = None
            /\ stop_task' = FALSE
            /\ handling' = [handling EXCEPT !["receive_loop"] = NoTask]
            /\ finished' = finished \cup
                   {[task_id |-> handling["receive_loop"].task_id,
                     marker |-> current_task', status |-> status,
                     stop_agent |-> stop_agent]}
       ELSE UNCHANGED <<current_task, stop_task, handling, finished>>
    /\ path' = [p \in Paths |-> "ended"]
    /\ ws_client' = FALSE
    /\ status' = "idle"
    /\ UNCHANGED <<stop_agent, browser, inbox, issued, handed, signup, channelVars, libVars>>

\* the platform sends a task
platform_sends_task ==
    /\ issued < MaxTasks
    /\ Len(inbox) < MaxInbox
    /\ \E type \in TaskTypes :
          inbox' = Append(inbox, task_message(issued + 1, type))
    /\ issued' = issued + 1
    /\ UNCHANGED <<fieldVars, path, handling, handed, finished, signup, channelVars, libVars>>

\* the platform sends a stop command
platform_sends_command ==
    /\ Len(inbox) < MaxInbox
    /\ inbox' = Append(inbox, command_message("stop_task"))
    /\ UNCHANGED <<fieldVars, path, handling, issued, handed, finished, signup,
                   channelVars, libVars>>

\* the platform sends a pause or a resume command
platform_sends_pause ==
    /\ Len(inbox) < MaxInbox
    /\ \E command \in {"pause", "resume"} :
          inbox' = Append(inbox, command_message(command))
    /\ UNCHANGED <<fieldVars, path, handling, issued, handed, finished, signup,
                   channelVars, libVars>>

\* run() has connected: connect() returned True, the receive loop waits in
\* recv() and the loop of run() polls process_messages
InitRunning ==
    /\ connected = TRUE
    /\ ws = 1
    /\ should_run = TRUE
    /\ reconnecting = FALSE
    /\ outgoing_queue = <<>>
    /\ first_pc = "done"
    /\ rc = Idle
    /\ receive_loops = {1}
    /\ spawned = 0
    /\ disconnect_pc = "idle"
    /\ in_flight = [c \in Callers |-> <<>>]
    /\ serverUp = TRUE
    /\ wire = <<status_message("connected", 0)>>
    /\ clock = 0
    /\ composed = 0
    /\ nsock = 1
    /\ closed = {}
    /\ enqueued = {}
    /\ delays = <<>>
    /\ status = "connected"
    /\ current_task = None
    /\ stop_task = FALSE
    /\ stop_agent = FALSE
    /\ ws_client = TRUE
    /\ browser = FALSE
    /\ path = [p \in Paths |-> "recv"]
    /\ handling = [p \in Paths |-> NoTask]
    /\ signup = NoSignup
    /\ inbox = <<>>
    /\ issued = 0
    /\ handed = <<>>
    /\ finished = {}
    /\ now = 0
    /\ circuit_breaker = CircuitBreaker(5, 60, 3)
    /\ cb_calls = 0
    /\ cb_log = NoCalls
    /\ retry = NoRetry
    /\ limiter = RateLimiter(2, 5, 0)
    /\ state = NoLoop
    /\ llm = Unused
    /\ parsed = Unused
    /\ bot = Unused
    /\ updater = Unused
    /\ config = Unused
    /\ config_files = Unused
    /\ config_op = Unused
    /\ vision = Unused
    /\ agent = Unused

\* the agent with a platform that sends tasks and stop commands and a
\* user who stops the agent
Next ==
    \/ platform_sends_task
    \/ platform_sends_command
    \/ receive_loop
    \/ process_messages
    \/ \E p \in Paths : executor_returns(p)
    \/ stop
    \/ run_loop_exit
    \/ cleanup

Spec == InitRunning /\ [][Next]_vars

\* the agent with a platform that sends tasks and pause and resume
\* commands
NextPause ==
    \/ platform_sends_task
    \/ platform_sends_pause
    \/ receive_loop
    \/ process_messages
    \/ \E p \in Paths : executor_returns(p)

SpecPause == InitRunning /\ [][NextPause]_vars

----------------------------------------------------------------------------
(* InboxHunterAgent._execute_signup_task and                               *)
(* AIAgentOrchestrator.execute_signup, for a signup task the receive loop  *)
(* has delivered.  The browser, the page and the LLM are the environment:  *)
(* each await on them ends with one of the outcomes the code tells apart.  *)

\* _execute_signup_task has been called and awaits its first send_log;
\* AgentState starts with current_step = 1, complete = success = False
SignupStart ==
    [pc |-> "start", current_step |-> 1, complete |-> FALSE, success |-> FALSE,
     result |-> [success |-> FALSE, stopped |-> FALSE], tripped |-> 0,
     commanded |-> FALSE, further |-> FALSE, loop_exit |-> "none",
     browser_left |-> FALSE, requested |-> FALSE]

\* _execute_signup_task returns `result` (tripped: the checkpoint that
\* found the stop flag set, 0 for none) with _browser as b: _handle_task
\* reports the result, runs its finally block and returns to the receive loop
signup_returns(s, result, tripped, b) ==
    /\ signup' = [s EXCEPT !.pc = "returned", !.result = result,
                           !.tripped = tripped, !.browser_left = b]
    /\ browser' = b
    /\ IF ws_client
       THEN channel_send_task_result(handling["receive_loop"].task_id, result.success)
       ELSE handed' = handed
    /\ handle_task_finally("receive_loop")
    /\ path' = [path EXCEPT !["receive_loop"] = "recv"]

\* a return path that calls _close_browser first: with a browser the close
\* is awaited, without one _close_browser returns at once
close_browser(s, result, tripped) ==
    IF browser
    THEN /\ signup' = [s EXCEPT !.pc = "closing", !.result = result, !.tripped = tripped]
         /\ UNCHANGED <<status, current_task, stop_task, browser, path, handling,
                        handed, finished>>
    ELSE signup_returns(s, result, tripped, FALSE)

\* the result of a tripped checkpoint, lines 280, 294, 308, 321 and 341
Stopped == [success |-> FALSE, stopped |-> TRUE]

\* the result of a failure that is not a stop
Failed == [success |-> FALSE, stopped |-> FALSE]

\* a checkpoint after an await: the stop flag set closes the browser and
\* returns the stopped result, else the next await begins
checkpoint(n, next_pc) ==
    IF stop_task
    THEN close_browser(signup, Stopped, n)
    ELSE /\ signup' = [signup EXCEPT !.pc = next_pc]
         /\ UNCHANGED <<status, current_task, stop_task, browser, path, handling,
                        handed, finished>>

\* lines 274-287: the checkpoint before browser init returns without
\* touching the browser; else the browser is created when there is none
\* and initialize() awaited, and with a browser left by an earlier task the
\* navigation begins at once
signup_start ==
    /\ signup.pc = "start"
    /\ IF stop_task
       THEN signup_returns(signup, Stopped, 1, browser)
       ELSE /\ signup' = [signup EXCEPT !.pc = IF browser THEN "navigate" ELSE "init"]
            /\ browser' = TRUE
            /\ UNCHANGED <<status, current_task, stop_task, path, handling, handed,
                           finished>>
    /\ UNCHANGED <<stop_agent, ws_client, inbox, issued, channelVars, libVars>>

\* line 287: initialize() returns, and the checkpoint after browser init;
\* or it raises, outside the try block, and the except block of
\* _handle_task reports the failure
signup_initialized ==
    /\ signup.pc = "init"
    /\ \E outcome \in {"ok", "raised"} :
          IF outcome = "ok"
          THEN checkpoint(2, "navigate")
          ELSE signup_returns(signup, Failed, 0, browser)
    /\ UNCHANGED <<stop_agent, ws_client, inbox, issued, channelVars, libVars>>

\* lines 299-308: navigate() returns True, and the checkpoint after
\* navigation; or returns False, and the task returns without closing the
\* browser; or raises, and the except block closes the browser
signup_navigated ==
    /\ signup.pc = "navigate"
    /\ \E outcome \in {"ok", "failed", "raised"} :
          CASE outcome = "ok"     -> checkpoint(3, "detect")
            [] outcome = "failed" -> signup_returns(signup, Failed, 0, browser)
            [] outcome = "raised" -> close_browser(signup, Failed, 0)
    /\ UNCHANGED <<stop_agent, ws_client, inbox, issued, channelVars, libVars>>

\* lines 313-322: detect_platform() returns, and the checkpoint after
\* platform detection, then the send_log before the orchestrator is built
signup_detected ==
    /\ signup.pc = "detect"
    /\ \E outcome \in {"ok", "raised"} :
          IF outcome = "ok"
          THEN checkpoint(4, "analyze")
          ELSE close_browser(signup, Failed, 0)
    /\ UNCHANGED <<stop_agent, ws_client, inbox, issued, channelVars, libVars>>

\* lines 325-341: the orchestrator is built, and the checkpoint before the
\* AI loop, then the send_log before execute_signup
signup_analyzed ==
    /\ signup.pc = "analyze"
    /\ checkpoint(5, "execute")
    /\ UNCHANGED <<stop_agent, ws_client, inbox, issued, channelVars, libVars>>

\* lines 344-366, after execute_signup has returned with state.success =
\* success: the checkpoint after the AI loop keeps the result and marks it
\* stopped; without a stop the result is finalised.  Both close the browser.
execute_signup_returned(s) ==
    IF stop_task
    THEN close_browser(s, [success |-> s.success, stopped |-> TRUE], 6)
    ELSE close_browser(s, [success |-> s.success, stopped |-> FALSE], 0)

\* execute_signup, up to its first await: the stop check before starting
\* returns a failure; else the initial sleep
signup_execute ==
    /\ signup.pc = "execute"
    /\ IF stop_task
       THEN execute_signup_returned(signup)
       ELSE /\ signup' = [signup EXCEPT !.pc = "sleep"]
            /\ UNCHANGED <<status, current_task, stop_task, browser, path, handling,
                           handed, finished>>
    /\ UNCHANGED <<stop_agent, ws_client, inbox, issued, channelVars, libVars>>

\* execute_signup wakes from a sleep (the sleep between two steps ends with
\* current_step += 1) and tests the loop: past max_steps the final
\* observation begins; a stop seen at the top of the iteration ends the
\* loop with complete = True, success = False; else a step begins
loop_top ==
    /\ signup.pc \in {"sleep", "between"}
    /\ LET step == IF signup.pc = "between" THEN signup.current_step + 1
                   ELSE signup.current_step
           s == [signup EXCEPT !.current_step = step]
       IN  IF step > max_steps
           THEN /\ signup' = [s EXCEPT !.pc = "observe", !.loop_exit = "max_steps"]
                /\ UNCHANGED <<status, current_task, stop_task, browser, path,
                               handling, handed, finished>>
           ELSE IF stop_task
                THEN execute_signup_returned(
                         [s EXCEPT !.complete = TRUE, !.success = FALSE,
                                   !.loop_exit = "top"])
                ELSE /\ signup' = [s EXCEPT !.pc = "step",
                                            !.further = s.further \/ s.commanded]
                     /\ UNCHANGED <<status, current_task, stop_task, browser, path,
                                    handling, handed, finished>>
    /\ UNCHANGED <<stop_agent, ws_client, inbox, issued, channelVars, libVars>>

\* one observe/reason/act step ends: the loop goes on after a sleep; the
\* action was "complete"; the loop gives up (no form, CAPTCHA, stuck
\* selector, error loop) with or without a success indicator; the LLM gave
\* no action (break, complete stays False); or an await raised
step_ends ==
    /\ signup.pc = "step"
    /\ \E outcome \in {"next", "complete", "gave_up", "no_action", "raised"} :
          CASE outcome = "next" ->
                  /\ signup' = [signup EXCEPT !.pc = "between"]
                  /\ UNCHANGED <<status, current_task, stop_task, browser, path,
                                 handling, handed, finished>>
            [] outcome = "complete" ->
                  execute_signup_returned(
                      [signup EXCEPT !.complete = TRUE, !.success = TRUE,
                                     !.loop_exit = "step"])
            [] outcome = "gave_up" ->
                  \E indicator \in BOOLEAN :
                      execute_signup_returned(
                          [signup EXCEPT !.complete = TRUE, !.success = indicator,
                                         !.loop_exit = "step"])
            [] outcome = "no_action" ->
                  execute_signup_returned([signup EXCEPT !.loop_exit = "step"])
            [] outcome = "raised" ->
                  execute_signup_returned(
                      [signup EXCEPT !.success = FALSE, !.loop_exit = "raised"])
    /\ UNCHANGED <<stop_agent, ws_client, inbox, issued, channelVars, libVars>>

\* the observation after max_steps: success is the success indicator
final_observation ==
    /\ signup.pc = "observe"
    /\ \E indicator \in BOOLEAN :
          execute_signup_returned(
              [signup EXCEPT !.complete = TRUE, !.success = indicator])
    /\ UNCHANGED <<stop_agent, ws_client, inbox, issued, channelVars, libVars>>

\* _close_browser: close() returns and _browser = None, or close() raises
\* and _browser stays; the pending result is returned
browser_closed ==
    /\ signup.pc = "closing"
    /\ \E outcome \in {"ok", "raised"} :
          signup_returns(signup, signup.result, signup.tripped, outcome = "raised")
    /\ UNCHANGED <<stop_agent, ws_client, inbox, issued, channelVars, libVars>>

\* the receive loop has delivered signup task 1 and _handle_task has called
\* _execute_signup_task
InitSignup ==
    /\ connected = TRUE
    /\ ws = 1
    /\ should_run = TRUE
    /\ reconnecting = FALSE
    /\ outgoing_queue = <<>>
    /\ first_pc = "done"
    /\ rc = Idle
    /\ receive_loops = {1}
    /\ spawned = 0
    /\ disconnect_pc = "idle"
    /\ in_flight = [c \in Callers |-> <<>>]
    /\ serverUp = TRUE
    /\ wire = <<status_message("connected", 0)>>
    /\ clock = 0
    /\ composed = 0
    /\ nsock = 1
    /\ closed = {}
    /\ enqueued = {}
    /\ delays = <<>>
    /\ status = "running"
    /\ current_task = 1
    /\ stop_task = FALSE
    /\ stop_agent = FALSE
    /\ ws_client = TRUE
    /\ browser = FALSE
    /\ path = [p \in Paths |-> IF p = "receive_loop" THEN "handling" ELSE "recv"]
    /\ handling = [p \in Paths |-> IF p = "receive_loop"
                                  THEN [task_id |-> 1, type |-> "signup"]
                                  ELSE NoTask]
    /\ signup = SignupStart
    /\ inbox = <<>>
    /\ issued = 1
    /\ handed = <<>>
    /\ finished = {}
    /\ now = 0
    /\ circuit_breaker = CircuitBreaker(5, 60, 3)
    /\ cb_calls = 0
    /\ cb_log = NoCalls
    /\ retry = NoRetry
    /\ limiter = RateLimiter(2, 5, 0)
    /\ state = NoLoop
    /\ llm = Unused
    /\ parsed = Unused
    /\ bot = Unused
    /\ updater = Unused
    /\ config = Unused
    /\ config_files = Unused
    /\ config_op = Unused
    /\ vision = Unused
    /\ agent = Unused

\* a signup task under the receive loop, while the platform sends stop
\* commands and further tasks, which process_messages delivers
NextSignup ==
    \/ platform_sends_task
    \/ platform_sends_command
    \/ process_messages
    \/ executor_returns("process_messages")
    \/ signup_start
    \/ signup_initialized
    \/ signup_navigated
    \/ signup_detected
    \/ signup_analyzed
    \/ signup_execute
    \/ loop_top
    \/ step_ends
    \/ final_observation
    \/ browser_closed

SpecSignup == InitSignup /\ [][NextSignup]_vars

----------------------------------------------------------------------------
(* The circuit breaker and its callers *)

\* time.time() advances by one second
tick ==
    /\ now < MaxNow
    /\ now' = now + 1
    /\ UNCHANGED <<circuit_breaker, cb_calls, cb_log, retry, limiter, loopVars, appVars,
                   channelVars, agentVars>>

\* the call `op` is made on the breaker: it leaves the breaker `after` and
\* returns `returned`
breaker_called(op, after, returned) ==
    /\ circuit_breaker' = after
    /\ cb_log' = logged(cb_log, op, circuit_breaker, after, now, returned)
    /\ UNCHANGED <<now, retry, limiter, loopVars, appVars, channelVars, agentVars>>

\* room in this run for one more can_execute that returns True
MayAdmit == circuit_breaker.state = "half_open" => cb_log.admitted < MaxAdmitted

\* room in this run for one more record_failure
MayFail == circuit_breaker.failure_count < MaxFailures

\* a caller checks the gate
call_can_execute ==
    /\ MayAdmit
    /\ LET r == can_execute(circuit_breaker, now)
       IN  breaker_called("can_execute", r.cb, r.returns)
    /\ UNCHANGED cb_calls

\* a caller reports a success
call_record_success ==
    /\ breaker_called("record_success", record_success(circuit_breaker), TRUE)
    /\ UNCHANGED cb_calls

\* a caller reports a failure
call_record_failure ==
    /\ MayFail
    /\ breaker_called("record_failure", record_failure(circuit_breaker, now), TRUE)
    /\ UNCHANGED cb_calls

\* with_circuit_breaker, async_wrapper up to its await: the gate is
\* checked, and a refused call raises without calling the function
with_circuit_breaker ==
    /\ MayAdmit
    /\ cb_calls < MaxCalls
    /\ LET r == can_execute(circuit_breaker, now)
       IN  /\ breaker_called("can_execute", r.cb, r.returns)
           /\ cb_calls' = IF r.returns THEN cb_calls + 1 ELSE cb_calls

\* with_circuit_breaker, async_wrapper after its await: the function has
\* returned, or it has raised
with_circuit_breaker_ends ==
    /\ cb_calls > 0
    /\ cb_calls' = cb_calls - 1
    /\ \E outcome \in {"returned", "raised"} :
          IF outcome = "returned"
          THEN breaker_called("record_success", record_success(circuit_breaker), TRUE)
          ELSE /\ MayFail
               /\ breaker_called("record_failure",
                                 record_failure(circuit_breaker, now), TRUE)

\* a circuit breaker with small parameters, nothing else running
InitBreaker ==
    /\ connected = FALSE
    /\ ws = None
    /\ should_run = TRUE
    /\ reconnecting = FALSE
    /\ outgoing_queue = <<>>
    /\ first_pc = "new"
    /\ rc = Idle
    /\ receive_loops = {}
    /\ spawned = 0
    /\ disconnect_pc = "idle"
    /\ in_flight = [c \in Callers |-> <<>>]
    /\ serverUp = TRUE
    /\ wire = <<>>
    /\ clock = 0
    /\ composed = 0
    /\ nsock = 0
    /\ closed = {}
    /\ enqueued = {}
    /\ delays = <<>>
    /\ status = "idle"
    /\ current_task = None
    /\ stop_task = FALSE
    /\ stop_agent = FALSE
    /\ ws_client = FALSE
    /\ browser = FALSE
    /\ path = [p \in Paths |-> "none"]
    /\ handling = [p \in Paths |-> NoTask]
    /\ signup = NoSignup
    /\ inbox = <<>>
    /\ issued = 0
    /\ handed = <<>>
    /\ finished = {}
    /\ now = 0
    /\ \E failure_threshold \in 1..MaxThreshold,
          recovery_timeout \in 1..MaxRecoveryTimeout,
          half_open_max_calls \in 1..MaxHalfOpenCalls :
          circuit_breaker = CircuitBreaker(failure_threshold, recovery_timeout,
                                           half_open_max_calls)
    /\ cb_calls = 0
    /\ cb_log = NoCalls
    /\ retry = NoRetry
    /\ limiter = RateLimiter(2, 5, 0)
    /\ state = NoLoop
    /\ llm = Unused
    /\ parsed = Unused
    /\ bot = Unused
    /\ updater = Unused
    /\ config = Unused
    /\ config_files = Unused
    /\ config_op = Unused
    /\ vision = Unused
    /\ agent = Unused

NextBreaker ==
    \/ tick
    \/ call_can_execute
    \/ call_record_success
    \/ call_record_failure
    \/ with_circuit_breaker
    \/ with_circuit_breaker_ends

SpecBreaker == InitBreaker /\ [][NextBreaker]_vars

----------------------------------------------------------------------------
(* A call of a function wrapped by retry_with_backoff *)

\* the wrapper leaves `r` behind
retry_becomes(r) ==
    /\ retry' = r
    /\ UNCHANGED <<now, circuit_breaker, cb_calls, cb_log, limiter, loopVars, appVars,
                   channelVars, agentVars>>

\* lines 113-138 (and 146-168 of the sync wrapper): the invocation of the
\* function ends.  It returns, and so does the wrapper; it raises an
\* exception outside `exceptions`, which leaves the wrapper; or it raises
\* a whitelisted exception: on the last attempt it is raised again, else
\* the delay is computed, jittered, and slept.  on_retry is None.
retry_func_ends ==
    /\ retry.pc = "calling"
    /\ \E outcome \in {"returns", "whitelisted", "other"} :
          LET n == Len(retry.outcomes) + 1
              r == [retry EXCEPT !.outcomes = Append(@, outcome)]
              delay == retry_delay(retry, retry.attempt)
          IN  CASE outcome = "returns" -> retry_becomes([r EXCEPT !.pc = "returned"])
                [] outcome = "other" ->
                      retry_becomes([r EXCEPT !.pc = "raised", !.raised = n])
                [] outcome = "whitelisted" ->
                      IF retry.attempt = retry.max_retries
                      THEN retry_becomes([r EXCEPT !.pc = "raised", !.raised = n,
                                                   !.last_exception = n])
                      ELSE \E random \in 0..(JitterGrid - 1) :
                              retry_becomes(
                                  [r EXCEPT !.pc = "sleeping", !.last_exception = n,
                                            !.delays = Append(@, delay),
                                            !.sleep = IF retry.jitter
                                                      THEN jittered(delay, random)
                                                      ELSE delay * 2 * JitterGrid])

\* the sleep of line 138 ends and the loop of line 113 goes on
retry_wakes ==
    /\ retry.pc = "sleeping"
    /\ retry_becomes([retry EXCEPT !.pc = "calling", !.attempt = @ + 1])

\* the wrapper has been called and awaits the first invocation
InitRetry ==
    /\ connected = FALSE
    /\ ws = None
    /\ should_run = TRUE
    /\ reconnecting = FALSE
    /\ outgoing_queue = <<>>
    /\ first_pc = "new"
    /\ rc = Idle
    /\ receive_loops = {}
    /\ spawned = 0
    /\ disconnect_pc = "idle"
    /\ in_flight = [c \in Callers |-> <<>>]
    /\ serverUp = TRUE
    /\ wire = <<>>
    /\ clock = 0
    /\ composed = 0
    /\ nsock = 0
    /\ closed = {}
    /\ enqueued = {}
    /\ delays = <<>>
    /\ status = "idle"
    /\ current_task = None
    /\ stop_task = FALSE
    /\ stop_agent = FALSE
    /\ ws_client = FALSE
    /\ browser = FALSE
    /\ path = [p \in Paths |-> "none"]
    /\ handling = [p \in Paths |-> NoTask]
    /\ signup = NoSignup
    /\ inbox = <<>>
    /\ issued = 0
    /\ handed = <<>>
    /\ finished = {}
    /\ now = 0
    /\ circuit_breaker = CircuitBreaker(5, 60, 3)
    /\ cb_calls = 0
    /\ cb_log = NoCalls
    /\ \E max_retries \in 0..MaxRetries, base_delay \in 1..MaxBaseDelay,
          max_delay \in MaxDelays, exponential_base \in 1..MaxExponentialBase,
          jitter \in BOOLEAN :
          retry = [NoRetry EXCEPT !.max_retries = max_retries,
                                  !.base_delay = base_delay,
                                  !.max_delay = max_delay,
                                  !.exponential_base = exponential_base,
                                  !.jitter = jitter, !.pc = "calling"]
    /\ limiter = RateLimiter(2, 5, 0)
    /\ state = NoLoop
    /\ llm = Unused
    /\ parsed = Unused
    /\ bot = Unused
    /\ updater = Unused
    /\ config = Unused
    /\ config_files = Unused
    /\ config_op = Unused
    /\ vision = Unused
    /\ agent = Unused

NextRetry ==
    \/ retry_func_ends
    \/ retry_wakes

SpecRetry == InitRetry /\ [][NextRetry]_vars

----------------------------------------------------------------------------
(* The token bucket and the coroutines that call acquire() *)

\* the coroutines that call acquire()
Acquirers == 1..MaxAcquirers

\* the global instances: openai_rate_limiter (0.5 tokens per second, burst
\* 5) and captcha_rate_limiter (0.2 tokens per second, burst 3)
Limiters == {[period |-> 2, burst |-> 5], [period |-> 5, burst |-> 3]}

\* the limiter becomes l
limiter_becomes(l) ==
    /\ limiter' = l
    /\ UNCHANGED <<now, circuit_breaker, cb_calls, cb_log, retry, loopVars, appVars,
                   channelVars, agentVars>>

\* acquire(), lines 236-247, by a coroutine that gets the lock: the bucket
\* is refilled for the time since last_update; with less than one token
\* the coroutine sleeps (1 - tokens) / rate seconds holding the lock, else
\* it takes one token and returns
acquire(c) ==
    /\ limiter.lock = 0
    /\ LET elapsed == now - limiter.last_update
           refilled == limiter.tokens + elapsed
           tokens == IF refilled < limiter.burst * limiter.period
                     THEN refilled ELSE limiter.burst * limiter.period
           l == [limiter EXCEPT !.tokens = tokens, !.last_update = now]
       IN  IF tokens < limiter.period
           THEN limiter_becomes([l EXCEPT !.lock = c,
                                          !.wake_at = now + (limiter.period - tokens)])
           ELSE limiter_becomes([l EXCEPT !.tokens = tokens - limiter.period,
                                          !.completed = @ + 1])

\* lines 244-245: the sleep ends, tokens = 0, the lock is released and
\* acquire() returns
acquire_wakes(c) ==
    /\ limiter.lock = c
    /\ now >= limiter.wake_at
    /\ limiter_becomes([limiter EXCEPT !.tokens = 0, !.lock = 0, !.wake_at = None,
                                       !.completed = @ + 1])

\* one of the global limiters has just been created
InitLimiter ==
    /\ connected = FALSE
    /\ ws = None
    /\ should_run = TRUE
    /\ reconnecting = FALSE
    /\ outgoing_queue = <<>>
    /\ first_pc = "new"
    /\ rc = Idle
    /\ receive_loops = {}
    /\ spawned = 0
    /\ disconnect_pc = "idle"
    /\ in_flight = [c \in Callers |-> <<>>]
    /\ serverUp = TRUE
    /\ wire = <<>>
    /\ clock = 0
    /\ composed = 0
    /\ nsock = 0
    /\ closed = {}
    /\ enqueued = {}
    /\ delays = <<>>
    /\ status = "idle"
    /\ current_task = None
    /\ stop_task = FALSE
    /\ stop_agent = FALSE
    /\ ws_client = FALSE
    /\ browser = FALSE
    /\ path = [p \in Paths |-> "none"]
    /\ handling = [p \in Paths |-> NoTask]
    /\ signup = NoSignup
    /\ inbox = <<>>
    /\ issued = 0
    /\ handed = <<>>
    /\ finished = {}
    /\ now = 0
    /\ circuit_breaker = CircuitBreaker(5, 60, 3)
    /\ cb_calls = 0
    /\ cb_log = NoCalls
    /\ retry = NoRetry
    /\ \E l \in Limiters : limiter = RateLimiter(l.period, l.burst, 0)
    /\ state = NoLoop
    /\ llm = Unused
    /\ parsed = Unused
    /\ bot = Unused
    /\ updater = Unused
    /\ config = Unused
    /\ config_files = Unused
    /\ config_op = Unused
    /\ vision = Unused
    /\ agent = Unused

NextLimiter ==
    \/ tick
    \/ \E c \in Acquirers : acquire(c)
    \/ \E c \in Acquirers : acquire_wakes(c)

SpecLimiter == InitLimiter /\ [][NextLimiter]_vars

----------------------------------------------------------------------------
(* The reasoning loop of AIAgentOrchestrator.execute_signup *)

\* the loop, or execute_signup, goes on as s
loop_becomes(s) ==
    /\ state' = s
    /\ UNCHANGED <<agent, utilVars, appVars, channelVars, agentVars>>

\* the loop has ended for the reason `why`: lines 402-430 find
\* current_step <= max_steps and return state.success
loop_breaks(s, why) ==
    loop_becomes([s EXCEPT !.pc = "done", !.loop_exit = why,
                           !.indicator_at_end = s.indicator])

\* what _observe_page may return on a page whose visible text holds a
\* success keyword or not: {} after an error; or a page state whose inputs
\* and buttons are both empty ("empty"), that has inputs or buttons but no
\* input of a form type and no navigation button ("bare"), or that has
\* some ("form")
Observations(indicator) ==
    {NoObservation} \cup
    [kind : {"empty", "bare", "form"}, has_success_indicator : {indicator},
     has_error_messages : BOOLEAN]

\* the actions _parse_llm_response may return: `captcha` says that the
\* reasoning mentions a CAPTCHA
Decisions ==
    [action_type : {"fill_field", "click", "unknown"},
     selector : Selectors \cup {NoSelector}, captcha : {FALSE}]
    \cup [action_type : {"wait"}, selector : {NoSelector}, captcha : BOOLEAN]
    \cup [action_type : {"complete"}, selector : {NoSelector}, captcha : {FALSE}]

\* line 569: the action of _reason_next_action for an empty page state
WaitForContent == [action_type |-> "wait", selector |-> NoSelector, captcha |-> FALSE]

\* AgentState.add_action for an action that succeeded or not
add_action(s, action, ok) ==
    [s EXCEPT !.filled = @ \/ (action.action_type = "fill_field" /\ ok),
              !.failed = IF ~ok /\ action.selector # NoSelector
                         THEN [@ EXCEPT ![action.selector] = @ + 1] ELSE @,
              !.captcha_waits = IF action.action_type = "wait" /\ action.captcha
                                THEN (IF @ < 3 THEN @ + 1 ELSE 3) ELSE 0]

\* the state after a solved CAPTCHA, were the step not counted
captcha_solved_same_step(s, action) ==
    [add_action(s, action, TRUE) EXCEPT !.pc = "top"]

\* lines 294-301: the CAPTCHA is solved, the wait action is recorded as
\* successful, and after a sleep the loop continues with the next step
captcha_solved(s, action) ==
    [add_action(s, action, TRUE) EXCEPT !.pc = "top", !.current_step = @ + 1]

\* lines 302-318: a bypass button is found and clicked, the click is
\* recorded, and after a sleep the loop continues with the next step
bypass_clicked(s) ==
    LET click == [action_type |-> "click", selector |-> NoSelector, captcha |-> FALSE]
    IN  [add_action(s, click, TRUE) EXCEPT !.pc = "top", !.current_step = @ + 1]

\* lines 237-277 and 402-413: the loop test; past max_steps the final
\* observation decides success.  Else the stop check, which may have been
\* requested, the observation of the page, and the early exit at step 15
\* and later with nothing filled, no form input and no navigation button
step_observe ==
    /\ state.pc = "top"
    /\ IF state.current_step > max_steps
       THEN \E final \in {NoObservation,
                          [NoObservation EXCEPT !.has_success_indicator = state.indicator]} :
               loop_becomes([state EXCEPT !.pc = "done", !.loop_exit = "max_steps",
                                          !.indicator_at_end = state.indicator,
                                          !.success = final.has_success_indicator,
                                          !.complete = TRUE])
       ELSE \E stop_requested \in BOOLEAN :
               IF stop_requested
               THEN loop_breaks([state EXCEPT !.complete = TRUE, !.success = FALSE],
                                "stop")
               ELSE \E seen \in Observations(state.indicator) :
                       LET s == [state EXCEPT !.page_state = seen,
                                              !.iterations = @ + 1,
                                              !.barren = @ /\ seen.kind # "form"]
                       IN  IF /\ state.current_step >= 15
                              /\ ~state.filled
                              /\ seen.kind # "form"
                           THEN loop_breaks([s EXCEPT !.complete = TRUE,
                                                      !.success = FALSE], "no_form")
                           ELSE loop_becomes([s EXCEPT !.pc = "reason"])

\* lines 280-329: _reason_next_action returns the wait of line 569 for an
\* empty page state, else what the LLM decided, or None, which ends the
\* loop.  A wait whose reasoning mentions a CAPTCHA goes through
\* _handle_captcha_in_agent first: solved, bypassed, or nothing worked, and
\* then three CAPTCHA waits at the end of actions_taken end the loop
step_reason ==
    /\ state.pc = "reason"
    /\ LET s == [state EXCEPT !.decisions = @ + 1]
       IN  \E decided \in IF state.page_state.kind = "empty" THEN {WaitForContent}
                           ELSE Decisions \cup {NoAction} :
              IF decided = NoAction
              THEN loop_breaks(s, "no_action")
              ELSE IF decided.captcha /\ decided.action_type = "wait"
                   THEN \E outcome \in {"solved", "bypassed", "nothing"} :
                           CASE outcome = "solved" ->
                                   loop_becomes(captcha_solved(s, decided))
                             [] outcome = "bypassed" ->
                                   loop_becomes(bypass_clicked(s))
                             [] outcome = "nothing" ->
                                   IF s.captcha_waits >= 3
                                   THEN loop_breaks([s EXCEPT !.complete = TRUE,
                                                              !.success = FALSE],
                                                    "captcha")
                                   ELSE loop_becomes([s EXCEPT !.pc = "act",
                                                               !.next_action = decided])
                   ELSE loop_becomes([s EXCEPT !.pc = "act", !.next_action = decided])

\* the results _execute_action may have for an action: "complete" always
\* succeeds and an unknown action type always fails
Results(action) ==
    CASE action.action_type = "complete" -> {TRUE}
      [] action.action_type = "unknown" -> {FALSE}
      [] OTHER -> BOOLEAN

\* lines 332-400: the action is executed and recorded; "complete" ends the
\* loop with success; a selector that has failed three times ends it with
\* the success indicator of the page state observed in this iteration;
\* error messages with clicks and no fills among the last six actions end
\* it as failed (the last six actions are not kept: the exit is taken or
\* not once three actions are recorded); else the sleep and the next step
step_act ==
    /\ state.pc = "act"
    /\ \E ok \in Results(state.next_action) :
          LET action == state.next_action
              s == [add_action(state, action, ok) EXCEPT !.next_action = NoAction]
          IN  CASE action.action_type = "complete" ->
                      loop_breaks([s EXCEPT !.complete = TRUE, !.success = TRUE],
                                  "complete")
                [] /\ action.action_type # "complete"
                   /\ ~ok
                   /\ action.selector # NoSelector
                   /\ s.failed[action.selector] >= 3 ->
                      loop_breaks(
                          [s EXCEPT !.complete = TRUE,
                                    !.success = state.page_state.has_success_indicator],
                          "stuck_selector")
                [] OTHER ->
                      \/ /\ state.page_state.has_error_messages
                         /\ state.current_step >= 3
                         /\ loop_breaks([s EXCEPT !.complete = TRUE,
                                                  !.success = FALSE], "error_loop")
                      \/ loop_becomes([s EXCEPT !.pc = "top", !.current_step = @ + 1])

\* the page changes while execute_signup awaits: a success message
\* appears or goes away
page_changes ==
    /\ state.pc \in {"top", "reason", "act"}
    /\ loop_becomes([state EXCEPT !.indicator = ~@])

\* execute_signup has passed its first stop check and the initial sleep
InitLoop ==
    /\ connected = FALSE
    /\ ws = None
    /\ should_run = TRUE
    /\ reconnecting = FALSE
    /\ outgoing_queue = <<>>
    /\ first_pc = "new"
    /\ rc = Idle
    /\ receive_loops = {}
    /\ spawned = 0
    /\ disconnect_pc = "idle"
    /\ in_flight = [c \in Callers |-> <<>>]
    /\ serverUp = TRUE
    /\ wire = <<>>
    /\ clock = 0
    /\ composed = 0
    /\ nsock = 0
    /\ closed = {}
    /\ enqueued = {}
    /\ delays = <<>>
    /\ status = "idle"
    /\ current_task = None
    /\ stop_task = FALSE
    /\ stop_agent = FALSE
    /\ ws_client = FALSE
    /\ browser = FALSE
    /\ path = [p \in Paths |-> "none"]
    /\ handling = [p \in Paths |-> NoTask]
    /\ signup = NoSignup
    /\ inbox = <<>>
    /\ issued = 0
    /\ handed = <<>>
    /\ finished = {}
    /\ now = 0
    /\ circuit_breaker = CircuitBreaker(5, 60, 3)
    /\ cb_calls = 0
    /\ cb_log = NoCalls
    /\ retry = NoRetry
    /\ limiter = RateLimiter(2, 5, 0)
    /\ \E indicator \in BOOLEAN : state = AgentState(indicator)
    /\ llm = Unused
    /\ parsed = Unused
    /\ bot = Unused
    /\ updater = Unused
    /\ config = Unused
    /\ config_files = Unused
    /\ config_op = Unused
    /\ vision = Unused
    /\ agent = Unused

NextLoop ==
    \/ step_observe
    \/ step_reason
    \/ step_act
    \/ page_changes

SpecLoop == InitLoop /\ [][NextLoop]_vars

\* every call execute_signup awaits returns: the observation, the LLM
\* call with its retries, the CAPTCHA handling, the action and the sleeps
SpecLoopFair ==
    SpecLoop /\ WF_vars(step_observe) /\ WF_vars(step_reason) /\ WF_vars(step_act)

----------------------------------------------------------------------------
(* AIAgentOrchestrator._reason_next_action: the LLM call with its          *)
(* rate-limit retries, and what execute_signup returns when it gives None  *)

\* retries of a rate-limited LLM call
max_rate_limit_retries == 3

\* the exception raised when the retries are used up
RateLimitExceeded == "Rate limit exceeded - API quota exhausted after multiple retries"

\* the error message of a failed action, as AgentAction.error_message has it
ActionError == "Element not found"

\* what follows "Please try again in " in the message of a rate-limited
\* call: nothing, or a number and the characters after it
Hints == {[value |-> 0, unit |-> <<>>], [value |-> 8, unit |-> <<"s">>],
          [value |-> 3, unit |-> <<"m", "1", "5", "s">>],
          [value |-> 500, unit |-> <<"m", "s">>]}

\* the seconds slept before a retry: the regular expression
\* ([\d.]+)(m|s) takes the number and the one character after it, minutes
\* are converted, 2 s are added; without a match 10, 30, 60 s by attempt
rate_limit_wait(hint, retry_attempt) ==
    IF hint.unit # <<>>
    THEN (IF Head(hint.unit) = "m" THEN hint.value * 60 ELSE hint.value) + 2
    ELSE IF retry_attempt = 1 THEN 10 ELSE IF retry_attempt = 2 THEN 30 ELSE 60

\* one iteration of execute_signup at its call of _reason_next_action:
\* whether the observed page has inputs or buttons, and the error messages
\* of the actions that failed in earlier iterations
ReasonCall(elements, errors) ==
    [pc |-> "reason", elements |-> elements, retry_attempt |-> 0,
     consecutive_rate_limits |-> 0, waits |-> <<>>, caught |-> "",
     next_action |-> "unset", failed_actions |-> errors,
     result |-> [returned |-> FALSE, success |-> FALSE, errors |-> {}]]

\* _reason_next_action returns None: execute_signup logs "LLM failed to
\* provide next action", breaks, and returns its summary, whose errors are
\* the error messages of the failed actions
reason_returns_none(l, caught) ==
    [l EXCEPT !.pc = "returned", !.next_action = "none", !.caught = caught,
              !.result = [returned |-> TRUE, success |-> FALSE,
                          errors |-> l.failed_actions]]

\* _reason_next_action up to its first await: a page state without inputs
\* and buttons gives the fixed wait action, any other one goes to the LLM
reason_next_action ==
    /\ llm.pc = "reason"
    /\ llm' = IF llm.elements
              THEN [llm EXCEPT !.pc = "call"]
              ELSE [llm EXCEPT !.pc = "acting", !.next_action = "wait"]
    /\ UNCHANGED <<channelVars, agentVars, utilVars, loopVars, parsed, bot, updater,
                   config, config_files, config_op, vision>>

\* _call_llm_for_next_action returns: a response is parsed into the next
\* action, an empty one makes _reason_next_action return None
llm_call_returns ==
    /\ llm.pc = "call"
    /\ \E response \in {"action", "empty"} :
          llm' = IF response = "action"
                 THEN [llm EXCEPT !.pc = "acting", !.next_action = "action",
                                  !.consecutive_rate_limits = 0]
                 ELSE reason_returns_none(
                          [llm EXCEPT !.consecutive_rate_limits = 0], "")
    /\ UNCHANGED <<channelVars, agentVars, utilVars, loopVars, parsed, bot, updater,
                   config, config_files, config_op, vision>>

\* _call_llm_for_next_action raises.  A rate-limit error is counted and,
\* up to max_rate_limit_retries times, slept on; the exception raised after
\* the last retry, like every other error, is caught by the `except
\* Exception` of _reason_next_action, which logs it and returns None.
llm_call_raises ==
    /\ llm.pc = "call"
    /\ \E rate_limit \in BOOLEAN, hint \in Hints :
          IF rate_limit
          THEN LET l == [llm EXCEPT !.retry_attempt = @ + 1,
                                    !.consecutive_rate_limits = @ + 1]
               IN  llm' = IF l.retry_attempt > max_rate_limit_retries
                          THEN reason_returns_none(l, RateLimitExceeded)
                          ELSE [l EXCEPT !.pc = "sleep",
                                         !.waits = Append(@, rate_limit_wait(
                                                       hint, l.retry_attempt))]
          ELSE llm' = reason_returns_none(llm, "Connection error")
    /\ UNCHANGED <<channelVars, agentVars, utilVars, loopVars, parsed, bot, updater,
                   config, config_files, config_op, vision>>

\* the sleep before a retry is over: the LLM is called again
rate_limit_sleep_ends ==
    /\ llm.pc = "sleep"
    /\ llm' = [llm EXCEPT !.pc = "call"]
    /\ UNCHANGED <<channelVars, agentVars, utilVars, loopVars, parsed, bot, updater,
                   config, config_files, config_op, vision>>

\* an iteration of execute_signup that has observed its page
InitReason ==
    /\ connected = FALSE
    /\ ws = None
    /\ should_run = TRUE
    /\ reconnecting = FALSE
    /\ outgoing_queue = <<>>
    /\ first_pc = "new"
    /\ rc = Idle
    /\ receive_loops = {}
    /\ spawned = 0
    /\ disconnect_pc = "idle"
    /\ in_flight = [c \in Callers |-> <<>>]
    /\ serverUp = TRUE
    /\ wire = <<>>
    /\ clock = 0
    /\ composed = 0
    /\ nsock = 0
    /\ closed = {}
    /\ enqueued = {}
    /\ delays = <<>>
    /\ status = "idle"
    /\ current_task = None
    /\ stop_task = FALSE
    /\ stop_agent = FALSE
    /\ ws_client = FALSE
    /\ browser = FALSE
    /\ path = [p \in Paths |-> "none"]
    /\ handling = [p \in Paths |-> NoTask]
    /\ signup = NoSignup
    /\ inbox = <<>>
    /\ issued = 0
    /\ handed = <<>>
    /\ finished = {}
    /\ now = 0
    /\ circuit_breaker = CircuitBreaker(5, 60, 3)
    /\ cb_calls = 0
    /\ cb_log = NoCalls
    /\ retry = NoRetry
    /\ limiter = RateLimiter(2, 5, 0)
    /\ state = NoLoop
    /\ parsed = Unused
    /\ bot = Unused
    /\ updater = Unused
    /\ config = Unused
    /\ config_files = Unused
    /\ config_op = Unused
    /\ vision = Unused
    /\ agent = Unused
    /\ \E elements \in BOOLEAN, errors \in SUBSET {ActionError} :
          llm = ReasonCall(elements, errors)

NextReason ==
    \/ reason_next_action
    \/ llm_call_returns
    \/ llm_call_raises
    \/ rate_limit_sleep_ends

SpecReason == InitReason /\ [][NextReason]_vars

----------------------------------------------------------------------------
(* llm_models.py: AgentActionResponse and parse_agent_response            *)

\* a value of the raw dictionary: its JSON type t, with its text s or its
\* number n (a float in tenths); "absent" stands for a key the dictionary
\* does not have
Absent == [t |-> "absent", s |-> "", n |-> 0]
JsonNull == [t |-> "null", s |-> "", n |-> 0]
Str(s) == [t |-> "str", s |-> s, n |-> 0]
Num(n) == [t |-> "number", s |-> "", n |-> n]
JsonList == [t |-> "list", s |-> "", n |-> 0]

\* the action types of the Literal of AgentActionResponse.action
ActionTypes == {"fill_field", "click", "wait", "complete"}

\* the raw dictionaries of the model: the keys action, reasoning,
\* confidence and selector, each absent, well typed or badly typed
ResponseDicts ==
    [action : {Absent, JsonNull, Num(1), Str("scroll"), Str("Click")}
                  \cup {Str(a) : a \in ActionTypes},
     reasoning : {Absent, JsonNull, Num(1), Str("because")},
     confidence : {Absent, JsonNull, Str("high"), Str("0.5"),
                   Num(0), Num(5), Num(10), Num(15), Num(0 - 1)},
     selector : {Absent, JsonNull, JsonList, Str(""), Str(" #a ")}]

\* validate_selector: None stays None, a string is stripped, an empty
\* string becomes None
validate_selector(v) ==
    IF v.t = "null" \/ v.s = "" THEN JsonNull
    ELSE IF v.s = " #a " THEN Str("#a") ELSE v

\* AgentActionResponse(**d): the validation of pydantic.  action must be
\* one of the four literals, reasoning a string, confidence None or a
\* number (or a numeric string) in [0, 1], selector None or a string; a
\* key that is absent takes its default, and reasoning has none.
AgentActionResponse(d) ==
    LET confidence == IF d.confidence = Str("0.5") THEN Num(5) ELSE d.confidence
        ok == /\ d.action.t = "str" /\ d.action.s \in ActionTypes
              /\ d.reasoning.t = "str"
              /\ \/ confidence.t \in {"absent", "null"}
                 \/ confidence.t = "number" /\ 0 <= confidence.n /\ confidence.n <= 10
              /\ d.selector.t \in {"absent", "null", "str"}
    IN  [ok |-> ok,
         value |-> [action |-> d.action.s,
                    reasoning |-> d.reasoning.s,
                    confidence |-> IF confidence.t = "absent" THEN JsonNull
                                   ELSE confidence,
                    selector |-> IF d.selector.t = "absent" THEN JsonNull
                                 ELSE validate_selector(d.selector)]]

\* parse_agent_response: the dictionary is validated; when that fails, a
\* copy with a missing or unknown action replaced by "wait" (and its
\* reasoning by a note) is validated, outside any try
parse_agent_response(d) ==
    LET first == AgentActionResponse(d)
        fixed == IF d.action.t # "str" \/ d.action.s \notin ActionTypes
                 THEN [d EXCEPT !.action = Str("wait"),
                                !.reasoning = Str("Original action invalid, defaulting to wait.")]
                 ELSE d
        second == AgentActionResponse(fixed)
    IN  IF first.ok THEN [raised |-> FALSE, fixed |-> FALSE, value |-> first.value]
        ELSE [raised |-> ~second.ok, fixed |-> TRUE, value |-> second.value]

\* a caller passes a dictionary to parse_agent_response
call_parse_agent_response ==
    /\ parsed.pc = "call"
    /\ parsed' = [parsed EXCEPT !.pc = "done",
                                !.outcome = parse_agent_response(parsed.response_dict)]
    /\ UNCHANGED <<channelVars, agentVars, utilVars, loopVars, llm, bot, updater,
                   config, config_files, config_op, vision>>

\* a dictionary decoded from the JSON of an LLM
InitParse ==
    /\ connected = FALSE
    /\ ws = None
    /\ should_run = TRUE
    /\ reconnecting = FALSE
    /\ outgoing_queue = <<>>
    /\ first_pc = "new"
    /\ rc = Idle
    /\ receive_loops = {}
    /\ spawned = 0
    /\ disconnect_pc = "idle"
    /\ in_flight = [c \in Callers |-> <<>>]
    /\ serverUp = TRUE
    /\ wire = <<>>
    /\ clock = 0
    /\ composed = 0
    /\ nsock = 0
    /\ closed = {}
    /\ enqueued = {}
    /\ delays = <<>>
    /\ status = "idle"
    /\ current_task = None
    /\ stop_task = FALSE
    /\ stop_agent = FALSE
    /\ ws_client = FALSE
    /\ browser = FALSE
    /\ path = [p \in Paths |-> "none"]
    /\ handling = [p \in Paths |-> NoTask]
    /\ signup = NoSignup
    /\ inbox = <<>>
    /\ issued = 0
    /\ handed = <<>>
    /\ finished = {}
    /\ now = 0
    /\ circuit_breaker = CircuitBreaker(5, 60, 3)
    /\ cb_calls = 0
    /\ cb_log = NoCalls
    /\ retry = NoRetry
    /\ limiter = RateLimiter(2, 5, 0)
    /\ state = NoLoop
    /\ llm = Unused
    /\ bot = Unused
    /\ updater = Unused
    /\ config = Unused
    /\ config_files = Unused
    /\ config_op = Unused
    /\ vision = Unused
    /\ agent = Unused
    /\ \E d \in ResponseDicts :
          parsed = [pc |-> "call", response_dict |-> d,
                    outcome |-> [raised |-> FALSE, fixed |-> FALSE,
                                 value |-> AgentActionResponse(d).value]]

SpecParse == InitParse /\ [][call_parse_agent_response]_vars

----------------------------------------------------------------------------
(* ReverseOutreachBot (bot/orchestrator.py): run(), _get_ads, _process_ad  *)
(*                                                                         *)
(* The datastore (src.database) is not in src/; is_url_processed,          *)
(* add_signup and add_error are modelled as the specification describes    *)
(* them (section 4.8): records are only ever added, and a url is processed *)
(* once anything has been recorded for it.                                 *)

\* candidates the sources deliver in one run, at most
MaxAds == 2

\* steps of the reasoning loop of one agent, at most
MaxAgentSteps == 2

\* rate_limiting.max_consecutive_failures of the configuration
max_consecutive_failures == 1

\* the landing-page urls of the candidates
Urls == {"u1", "u2"}

\* the `source` argument of run(); "all" is None
Sources == {"all", "meta", "csv", "extensions"}

\* lists of at most n urls, and those without a repeated url
UrlLists(n) == UNION {[1..k -> Urls] : k \in 0..n}
UniqueUrlLists(n) ==
    {l \in UrlLists(n) : \A i, j \in 1..Len(l) : l[i] = l[j] => i = j}

\* DatabaseOperations.is_url_processed: something was recorded for the url
is_url_processed(db, url) ==
    \/ url \in db.processed
    \/ db.signups[url] > 0
    \/ \E e \in db.errors : e[1] = url

\* DatabaseOperations.add_signup
add_signup(db, url) == [db EXCEPT !.signups[url] = @ + 1]

\* DatabaseOperations.add_error
add_error(db, url, error_type) ==
    [db EXCEPT !.errors = @ \cup {<<url, error_type>>}]

\* a ReverseOutreachBot whose run() is about to be called
ReverseOutreachBot(source, lists, processed, max_signups) ==
    [pc |-> "new", source |-> source, lists |-> lists, max_signups |-> max_signups,
     ads |-> <<>>, i |-> 0, processed |-> 0, consecutive_failures |-> 0,
     duplicates_skipped |-> 0, agent_steps |-> 0, browser |-> "none",
     db |-> [processed |-> processed, signups |-> [u \in Urls |-> 0], errors |-> {}],
     stop |-> FALSE, stop_seen |-> FALSE, after_stop |-> 0,
     waits_after_stop |-> {}, stopped_counted |-> FALSE,
     stats |-> [total_attempts |-> 0, successful_signups |-> 0,
                failed_attempts |-> 0],
     navigations |-> [u \in Urls |-> 0], handled |-> 0,
     last |-> [url |-> "", failure |-> ""], exit |-> "none"]

\* the ad the loop of run() is at
Ad(b) == b.ads[b.i]

\* self._stop_check() is called: what it returns is noted
stop_check(b) == [b EXCEPT !.stop_seen = @ \/ b.stop]

\* the browser navigates or the page is acted on (a token injected, a
\* field filled, a button clicked)
touches_page(b) == [b EXCEPT !.after_stop = IF b.stop_seen THEN @ + 1 ELSE @]

\* _record_error
record_error(b, error_type) ==
    [b EXCEPT !.db = add_error(@, Ad(b), error_type),
              !.last = [url |-> Ad(b), failure |-> error_type]]

\* a variant of ad_returns in which a failed ad ends the loop
ad_returns_failure_ends_loop(b, success) ==
    IF success
    THEN [b EXCEPT !.pc = "loop", !.i = @ + 1, !.handled = @ + 1,
                   !.processed = @ + 1, !.consecutive_failures = 0]
    ELSE [b EXCEPT !.pc = "cleanup", !.handled = @ + 1,
                   !.consecutive_failures = @ + 1]

\* the pacing waits run() has slept since stop_check first returned True
waited(b, wait) ==
    IF b.stop_seen THEN b.waits_after_stop \cup {wait} ELSE b.waits_after_stop

\* run(), after _process_ad has returned: the counters are updated, the
\* delay is slept (random_delay calls time.sleep) unless the ad is the
\* last one, and the for loop takes the next ad
ad_returns(b, success) ==
    [b EXCEPT !.pc = "loop", !.i = @ + 1, !.handled = @ + 1,
              !.processed = IF success THEN @ + 1 ELSE @,
              !.consecutive_failures = IF success THEN 0 ELSE @ + 1,
              !.waits_after_stop = IF b.i < Len(b.ads) THEN waited(b, "delay") ELSE @]

\* _process_ad returns False because stop_check returned True: run()
\* counts the ad as a failure
ad_stopped(b) ==
    [ad_returns([b EXCEPT !.last = [url |-> Ad(b), failure |-> ""]], FALSE)
        EXCEPT !.stopped_counted = TRUE]

\* _process_ad, the except block: the error is recorded, a screenshot tried
\* and the failed attempt counted
processing_error(b) ==
    ad_returns([record_error(b, "processing_error") EXCEPT
                    !.stats.failed_attempts = @ + 1], FALSE)

\* _process_ad, the agent result is not a success: the error is recorded
\* and a screenshot taken; a screenshot that raises leads to the except block
agent_failed(b, screenshot_raises) ==
    IF screenshot_raises
    THEN processing_error(record_error(b, "agent_failed"))
    ELSE ad_returns(record_error(b, "agent_failed"), FALSE)

\* a variant of after_navigation that does not return on a stop
after_navigation_goes_on(b) == [b EXCEPT !.pc = "captcha"]

\* _process_ad after a successful navigation: the stop check
after_navigation(b) ==
    IF b.stop THEN ad_stopped(b) ELSE [b EXCEPT !.pc = "captcha"]

\* execute_signup is called: it returns at once when stop_check is True
execute_signup_called(b, screenshot_raises) ==
    IF b.stop THEN agent_failed(stop_check(b), screenshot_raises)
    ELSE [stop_check(b) EXCEPT !.pc = "agent", !.agent_steps = 0]

\* run(): the browser is initialized
run ==
    /\ bot.pc = "new"
    /\ \E ok \in BOOLEAN :
          bot' = IF ok THEN [bot EXCEPT !.pc = "get_ads", !.browser = "open"]
                 ELSE [bot EXCEPT !.pc = "cleanup", !.browser = "open",
                                  !.exit = "fatal"]
    /\ UNCHANGED <<channelVars, agentVars, utilVars, loopVars, llm, parsed, updater,
                   config, config_files, config_op, vision>>

\* _get_ads: the lists of the requested sources are concatenated and the
\* urls the datastore has as processed are left out; run() returns when
\* nothing is left
get_ads ==
    /\ bot.pc = "get_ads"
    /\ LET all_ads ==
               (IF bot.source \in {"all", "meta"} THEN bot.lists.meta ELSE <<>>)
               \o (IF bot.source \in {"all", "csv"} THEN bot.lists.csv ELSE <<>>)
               \o (IF bot.source = "extensions" THEN bot.lists.extensions ELSE <<>>)
           new_ads == SelectSeq(all_ads, LAMBDA u : ~is_url_processed(bot.db, u))
       IN  bot' = [bot EXCEPT !.ads = new_ads, !.i = 1,
                              !.duplicates_skipped = Len(all_ads) - Len(new_ads),
                              !.pc = IF new_ads = <<>> THEN "cleanup" ELSE "loop",
                              !.exit = IF new_ads = <<>> THEN "no_ads" ELSE "none"]
    /\ UNCHANGED <<channelVars, agentVars, utilVars, loopVars, llm, parsed, updater,
                   config, config_files, config_op, vision>>

\* run(), one iteration of the for loop up to its first await: the end of
\* the list, the max_signups cap, the cooldown, the daily limit, then
\* _process_ad with its stop checks up to browser.navigate
loop_iteration ==
    /\ bot.pc = "loop"
    /\ \E daily_limit_reached \in BOOLEAN :
          bot' =
            IF bot.i > Len(bot.ads)
            THEN [bot EXCEPT !.pc = "cleanup", !.exit = "finished"]
            ELSE IF bot.max_signups > 0 /\ bot.processed >= bot.max_signups
            THEN [bot EXCEPT !.pc = "cleanup", !.exit = "max_signups"]
            ELSE IF bot.consecutive_failures >= max_consecutive_failures
            THEN [bot EXCEPT !.pc = "cooldown",
                             !.waits_after_stop = waited(bot, "cooldown")]
            ELSE IF daily_limit_reached
            THEN [bot EXCEPT !.pc = "cleanup", !.exit = "fatal"]
            ELSE IF bot.stop
            THEN ad_stopped(stop_check(bot))
            ELSE [touches_page(stop_check(bot)) EXCEPT
                      !.pc = "navigating",
                      !.stats.total_attempts = @ + 1,
                      !.navigations[Ad(bot)] = @ + 1]
    /\ UNCHANGED <<channelVars, agentVars, utilVars, loopVars, llm, parsed, updater,
                   config, config_files, config_op, vision>>

\* run(): the cooldown after too many consecutive failures is over
cooldown_ends ==
    /\ bot.pc = "cooldown"
    /\ bot' = [bot EXCEPT !.pc = "loop", !.consecutive_failures = 0]
    /\ UNCHANGED <<channelVars, agentVars, utilVars, loopVars, llm, parsed, updater,
                   config, config_files, config_op, vision>>

\* _process_ad: browser.navigate returns True or False, or raises
navigate_returns ==
    /\ bot.pc = "navigating"
    /\ \E outcome \in {"ok", "failed", "raised"} :
          bot' = IF outcome = "ok" THEN after_navigation(stop_check(bot))
                 ELSE IF outcome = "failed"
                 THEN ad_returns(record_error(bot, "navigation_failed"), FALSE)
                 ELSE processing_error(bot)
    /\ UNCHANGED <<channelVars, agentVars, utilVars, loopVars, llm, parsed, updater,
                   config, config_files, config_op, vision>>

\* _process_ad: the platform is detected and _handle_captcha returns: no
\* CAPTCHA, one that was solved (its token injected into the page) or one
\* that was not; then the agent is created and execute_signup called
handle_captcha_returns ==
    /\ bot.pc = "captcha"
    /\ \E outcome \in {"none", "solved", "unsolved", "raised"},
          screenshot_raises \in BOOLEAN :
          bot' = IF outcome = "none"
                 THEN execute_signup_called(bot, screenshot_raises)
                 ELSE IF outcome = "solved"
                 THEN execute_signup_called(touches_page(bot), screenshot_raises)
                 ELSE IF outcome = "unsolved"
                 THEN ad_returns(record_error(bot, "captcha_failed"), FALSE)
                 ELSE processing_error(bot)
    /\ UNCHANGED <<channelVars, agentVars, utilVars, loopVars, llm, parsed, updater,
                   config, config_files, config_op, vision>>

\* execute_signup, the top of an iteration: the stop check, then the page
\* is observed and the LLM asked
agent_observes ==
    /\ bot.pc = "agent"
    /\ \E screenshot_raises \in BOOLEAN :
          bot' = IF bot.stop THEN agent_failed(stop_check(bot), screenshot_raises)
                 ELSE [stop_check(bot) EXCEPT !.pc = "agent_act"]
    /\ UNCHANGED <<channelVars, agentVars, utilVars, loopVars, llm, parsed, updater,
                   config, config_files, config_op, vision>>

\* execute_signup, the action of the iteration is executed: the loop goes
\* on, or it ends with or without success
agent_acts ==
    /\ bot.pc = "agent_act"
    /\ \E outcome \in {"continue", "success", "failure"},
          screenshot_raises \in BOOLEAN :
          /\ outcome = "continue" => bot.agent_steps + 1 < MaxAgentSteps
          /\ bot' = IF outcome = "continue"
                    THEN [touches_page(bot) EXCEPT !.pc = "agent",
                                                   !.agent_steps = @ + 1]
                    ELSE IF outcome = "success"
                    THEN [touches_page(bot) EXCEPT !.pc = "confirming"]
                    ELSE agent_failed(touches_page(bot), screenshot_raises)
    /\ UNCHANGED <<channelVars, agentVars, utilVars, loopVars, llm, parsed, updater,
                   config, config_files, config_op, vision>>

\* _process_ad after a successful agent: the 3 s are over, the outcome is
\* classified and the SignUp record added; reading the page may raise
signup_recorded ==
    /\ bot.pc = "confirming"
    /\ \E raised \in BOOLEAN :
          bot' = IF raised THEN processing_error(bot)
                 ELSE ad_returns([bot EXCEPT !.db = add_signup(@, Ad(bot)),
                                             !.stats.successful_signups = @ + 1,
                                             !.last = [url |-> Ad(bot), failure |-> ""]],
                                 TRUE)
    /\ UNCHANGED <<channelVars, agentVars, utilVars, loopVars, llm, parsed, updater,
                   config, config_files, config_op, vision>>

\* run(), the finally block: _cleanup closes the browser
bot_cleanup ==
    /\ bot.pc = "cleanup"
    /\ bot' = [bot EXCEPT !.pc = "done", !.browser = "closed"]
    /\ UNCHANGED <<channelVars, agentVars, utilVars, loopVars, llm, parsed, updater,
                   config, config_files, config_op, vision>>

\* the caller's stop_check starts to return True
stop_requested ==
    /\ bot.pc \notin {"new", "done"}
    /\ ~bot.stop
    /\ bot' = [bot EXCEPT !.stop = TRUE]
    /\ UNCHANGED <<channelVars, agentVars, utilVars, loopVars, llm, parsed, updater,
                   config, config_files, config_op, vision>>

\* a bot with the candidates its sources deliver and a datastore that may
\* already hold a url
InitBot ==
    /\ connected = FALSE
    /\ ws = None
    /\ should_run = TRUE
    /\ reconnecting = FALSE
    /\ outgoing_queue = <<>>
    /\ first_pc = "new"
    /\ rc = Idle
    /\ receive_loops = {}
    /\ spawned = 0
    /\ disconnect_pc = "idle"
    /\ in_flight = [c \in Callers |-> <<>>]
    /\ serverUp = TRUE
    /\ wire = <<>>
    /\ clock = 0
    /\ composed = 0
    /\ nsock = 0
    /\ closed = {}
    /\ enqueued = {}
    /\ delays = <<>>
    /\ status = "idle"
    /\ current_task = None
    /\ stop_task = FALSE
    /\ stop_agent = FALSE
    /\ ws_client = FALSE
    /\ browser = FALSE
    /\ path = [p \in Paths |-> "none"]
    /\ handling = [p \in Paths |-> NoTask]
    /\ signup = NoSignup
    /\ inbox = <<>>
    /\ issued = 0
    /\ handed = <<>>
    /\ finished = {}
    /\ now = 0
    /\ circuit_breaker = CircuitBreaker(5, 60, 3)
    /\ cb_calls = 0
    /\ cb_log = NoCalls
    /\ retry = NoRetry
    /\ limiter = RateLimiter(2, 5, 0)
    /\ state = NoLoop
    /\ llm = Unused
    /\ parsed = Unused
    /\ updater = Unused
    /\ config = Unused
    /\ config_files = Unused
    /\ config_op = Unused
    /\ vision = Unused
    /\ agent = Unused
    /\ \E source \in Sources, meta \in UniqueUrlLists(MaxAds), csv \in UrlLists(MaxAds),
          extensions \in UniqueUrlLists(MaxAds), processed \in {{}, {"u1"}},
          max_signups \in 0..1 :
          /\ Len(meta) + Len(csv) + Len(extensions) <= MaxAds
          /\ source \notin {"all", "meta"} => meta = <<>>
          /\ source \notin {"all", "csv"} => csv = <<>>
          /\ source # "extensions" => extensions = <<>>
          /\ bot = ReverseOutreachBot(source,
                       [meta |-> meta, csv |-> csv, extensions |-> extensions],
                       processed, max_signups)

NextBot ==
    \/ run
    \/ get_ads
    \/ loop_iteration
    \/ cooldown_ends
    \/ navigate_returns
    \/ handle_captcha_returns
    \/ agent_observes
    \/ agent_acts
    \/ signup_recorded
    \/ bot_cleanup
    \/ stop_requested

SpecBot == InitBot /\ [][NextBot]_vars

\* every awaited call of the bot returns
SpecBotFair ==
    /\ SpecBot
    /\ WF_vars(run) /\ WF_vars(get_ads) /\ WF_vars(loop_iteration)
    /\ WF_vars(cooldown_ends) /\ WF_vars(navigate_returns)
    /\ WF_vars(handle_captcha_returns) /\ WF_vars(agent_observes)
    /\ WF_vars(agent_acts) /\ WF_vars(signup_recorded) /\ WF_vars(bot_cleanup)

----------------------------------------------------------------------------
(* AgentUpdater (core/updater.py): update_and_restart                      *)

\* no file, no update info
Nothing == "none"

\* what a file can hold: the running executable, the released update and
\* an artifact that is not the released one
Contents == {"current", "release", "tampered"}

\* hashlib.sha256(..).hexdigest() of a file's contents (lower-case hex)
SHA256(content) ==
    CASE content = "current" -> "5e88"
      [] content = "release" -> "9f86"
      [] content = "tampered" -> "6b3a"

\* the checksum field of the platform's answer: missing or empty, the
\* digest of the release in lower and in upper case, another digest
Checksums == {"", "9f86", "9F86", "6b3a"}

\* an AgentUpdater on a machine (sys.platform, sys.frozen) and the platform
\* and download server it talks to
AgentUpdater(platform, frozen, offer, served) ==
    [pc |-> "check", platform |-> platform, frozen |-> frozen,
     offer |-> offer, served |-> served,
     update_info |-> Nothing, download_path |-> Nothing,
     executable |-> "current", backup |-> Nothing, update_bat |-> Nothing,
     verified |-> FALSE, restarted |-> FALSE, returned |-> "unset"]

\* update_and_restart returns False
update_fails(u) == [u EXCEPT !.pc = "done", !.returned = "False"]

\* check_for_updates: the answer of GET /agent/version is kept when it has
\* update_available; anything else ends update_and_restart
check_for_updates ==
    /\ updater.pc = "check"
    /\ updater' =
         IF updater.offer.status = 200 /\ updater.offer.update_available
         THEN [updater EXCEPT !.pc = "download",
                              !.update_info = [download_url |-> updater.offer.download_url,
                                               checksum |-> updater.offer.checksum]]
         ELSE update_fails(updater)
    /\ UNCHANGED <<channelVars, agentVars, utilVars, loopVars, llm, parsed, bot,
                   config, config_files, config_op, vision>>

\* download_update: the artifact is streamed into the temporary file; its
\* digest is compared with the checksum only `if expected_checksum`; on a
\* mismatch the file is unlinked and None returned
download_update ==
    /\ updater.pc = "download"
    /\ LET expected_checksum == updater.update_info.checksum
           written == [updater EXCEPT !.download_path = updater.served.content]
       IN  updater' =
             IF ~updater.update_info.download_url \/ updater.served.status # 200
             THEN update_fails(updater)
             ELSE IF expected_checksum # "" /\ SHA256(written.download_path) # expected_checksum
             THEN update_fails([written EXCEPT !.download_path = Nothing])
             ELSE [written EXCEPT !.pc = "apply",
                                  !.verified = expected_checksum # ""]
    /\ UNCHANGED <<channelVars, agentVars, utilVars, loopVars, llm, parsed, bot,
                   config, config_files, config_op, vision>>

\* apply_update: a frozen executable is backed up and replaced by the
\* downloaded file, on Windows through update.bat, which is started; in
\* development mode nothing is applied
apply_update ==
    /\ updater.pc = "apply"
    /\ updater' =
         IF ~updater.frozen THEN update_fails(updater)
         ELSE IF updater.platform = "win32"
         THEN [updater EXCEPT !.backup = updater.executable,
                              !.update_bat = updater.download_path,
                              !.pc = "done", !.returned = "True"]
         ELSE [updater EXCEPT !.backup = updater.executable,
                              !.executable = updater.download_path,
                              !.pc = "restart"]
    /\ UNCHANGED <<channelVars, agentVars, utilVars, loopVars, llm, parsed, bot,
                   config, config_files, config_op, vision>>

\* update_and_restart on Unix: os.execv starts the replaced executable
restart_process ==
    /\ updater.pc = "restart"
    /\ updater' = [updater EXCEPT !.pc = "done", !.restarted = TRUE]
    /\ UNCHANGED <<channelVars, agentVars, utilVars, loopVars, llm, parsed, bot,
                   config, config_files, config_op, vision>>

\* an updater, the answer of the platform and the artifact behind the url
InitUpdater ==
    /\ connected = FALSE
    /\ ws = None
    /\ should_run = TRUE
    /\ reconnecting = FALSE
    /\ outgoing_queue = <<>>
    /\ first_pc = "new"
    /\ rc = Idle
    /\ receive_loops = {}
    /\ spawned = 0
    /\ disconnect_pc = "idle"
    /\ in_flight = [c \in Callers |-> <<>>]
    /\ serverUp = TRUE
    /\ wire = <<>>
    /\ clock = 0
    /\ composed = 0
    /\ nsock = 0
    /\ closed = {}
    /\ enqueued = {}
    /\ delays = <<>>
    /\ status = "idle"
    /\ current_task = None
    /\ stop_task = FALSE
    /\ stop_agent = FALSE
    /\ ws_client = FALSE
    /\ browser = FALSE
    /\ path = [p \in Paths |-> "none"]
    /\ handling = [p \in Paths |-> NoTask]
    /\ signup = NoSignup
    /\ inbox = <<>>
    /\ issued = 0
    /\ handed = <<>>
    /\ finished = {}
    /\ now = 0
    /\ circuit_breaker = CircuitBreaker(5, 60, 3)
    /\ cb_calls = 0
    /\ cb_log = NoCalls
    /\ retry = NoRetry
    /\ limiter = RateLimiter(2, 5, 0)
    /\ state = NoLoop
    /\ llm = Unused
    /\ parsed = Unused
    /\ bot = Unused
    /\ config = Unused
    /\ config_files = Unused
    /\ config_op = Unused
    /\ vision = Unused
    /\ agent = Unused
    /\ \E platform \in {"win32", "linux", "darwin"}, frozen \in BOOLEAN,
          status_code \in {200, 500}, update_available \in BOOLEAN,
          download_url \in BOOLEAN, checksum \in Checksums,
          served_status \in {200, 404}, content \in {"release", "tampered"} :
          updater = AgentUpdater(platform, frozen,
                        [status |-> status_code, update_available |-> update_available,
                         download_url |-> download_url, checksum |-> checksum],
                        [status |-> served_status, content |-> content])

NextUpdater ==
    \/ check_for_updates
    \/ download_update
    \/ apply_update
    \/ restart_process

SpecUpdater == InitUpdater /\ [][NextUpdater]_vars

----------------------------------------------------------------------------
(* AgentConfig (core/config.py): load, save, update_from_platform          *)
(*                                                                         *)
(* Every value is written as a string.  A dictionary (a platform payload,  *)
(* the YAML file) is a function from the keys it has to their values; the  *)
(* nested phone dictionary of the credentials is flattened into the keys   *)
(* phone_number (phone.number).                                            *)

\* calls of update_from_platform in one run, at most
MaxUpdates == 1

\* the sections update_from_platform and the YAML merge know
Sections == {"credentials", "llm", "captcha", "automation"}

\* AgentConfig(): the defaults of the model classes
DefaultConfig ==
    [agent_id |-> "", agent_token |-> "",
     platform |-> [api_url |-> "http://localhost:3001"],
     credentials |-> [first_name |-> "", email |-> "", phone_number |-> ""],
     llm |-> [api_key |-> "", model |-> "gpt-4o"],
     captcha |-> [api_key |-> ""],
     automation |-> [headless |-> "False", typing_delay_min |-> "0.1"],
     auto_start |-> "True"]

\* the configuration of a registered agent whose user has set every value
RegisteredConfig ==
    [agent_id |-> "agent-1", agent_token |-> "token-1",
     platform |-> [api_url |-> "https://platform"],
     credentials |-> [first_name |-> "Ann", email |-> "ann@a", phone_number |-> "555"],
     llm |-> [api_key |-> "sk-a", model |-> "gpt-4"],
     captcha |-> [api_key |-> "key-a"],
     automation |-> [headless |-> "True", typing_delay_min |-> "0.2"],
     auto_start |-> "False"]

\* the keys a dictionary may have for a section, and the value it gives each
SentFields(section) ==
    CASE section = "credentials" -> [first_name |-> "Bob", email |-> "bob@b", phone_number |-> "777"]
      [] section = "llm" -> [api_key |-> "sk-b", model |-> "gpt-5"]
      [] section = "captcha" -> [api_key |-> "key-b"]
      [] section = "automation" -> [headless |-> "False", typing_delay_min |-> "0.3"]
      [] section = "platform" -> [api_url |-> "https://other"]

\* the dictionaries over the given sections: any subset of the sections,
\* each with any subset of its keys
Restrict(f, keys) == [k \in keys |-> f[k]]
DictsOver(sections) ==
    UNION {{d \in [present -> UNION {{Restrict(SentFields(s), keys) :
                                         keys \in SUBSET DOMAIN SentFields(s)} : s \in present}] :
               \A s \in present : DOMAIN d[s] \subseteq DOMAIN SentFields(s)
                                  /\ d[s] = Restrict(SentFields(s), DOMAIN d[s])} :
           present \in SUBSET sections}

\* the payloads of the platform and the contents of config/config.yaml
Payloads == DictsOver(Sections)
YamlFiles == DictsOver({"credentials", "llm"})

\* dict.get(key, default)
get(d, key, default) == IF key \in DOMAIN d THEN d[key] ELSE default

\* the keys of the JSON document model_dump() gives
JsonKeys == {"agent_id", "agent_token", "auto_start", "platform.api_url",
             "credentials.first_name", "credentials.email", "credentials.phone_number",
             "llm.api_key", "llm.model", "captcha.api_key",
             "automation.headless", "automation.typing_delay_min"}

\* json.dump(self.model_dump()): the document written to agent_config.json
model_dump(c) ==
    [k \in JsonKeys |->
        CASE k = "agent_id" -> c.agent_id
          [] k = "agent_token" -> c.agent_token
          [] k = "auto_start" -> c.auto_start
          [] k = "platform.api_url" -> c.platform.api_url
          [] k = "credentials.first_name" -> c.credentials.first_name
          [] k = "credentials.email" -> c.credentials.email
          [] k = "credentials.phone_number" -> c.credentials.phone_number
          [] k = "llm.api_key" -> c.llm.api_key
          [] k = "llm.model" -> c.llm.model
          [] k = "captcha.api_key" -> c.captcha.api_key
          [] k = "automation.headless" -> c.automation.headless
          [] k = "automation.typing_delay_min" -> c.automation.typing_delay_min]

\* cls(**json.load(f)): the object built from a JSON document
from_json(doc) ==
    [agent_id |-> doc["agent_id"], agent_token |-> doc["agent_token"],
     platform |-> [api_url |-> doc["platform.api_url"]],
     credentials |-> [first_name |-> doc["credentials.first_name"],
                      email |-> doc["credentials.email"],
                      phone_number |-> doc["credentials.phone_number"]],
     llm |-> [api_key |-> doc["llm.api_key"], model |-> doc["llm.model"]],
     captcha |-> [api_key |-> doc["captcha.api_key"]],
     automation |-> [headless |-> doc["automation.headless"],
                     typing_delay_min |-> doc["automation.typing_delay_min"]],
     auto_start |-> doc["auto_start"]]

\* the merge of config/config.yaml in load(): llm and captcha only with an
\* api_key in the YAML, credentials and automation whenever the section is
\* there, platform only while the api_url is unset or the default
merge_yaml(c, y) ==
    LET llm_ == IF "llm" \in DOMAIN y /\ get(y["llm"], "api_key", "") # ""
                THEN [api_key |-> get(y["llm"], "api_key", c.llm.api_key),
                      model |-> get(y["llm"], "model", c.llm.model)]
                ELSE c.llm
        captcha_ == IF "captcha" \in DOMAIN y /\ get(y["captcha"], "api_key", "") # ""
                    THEN [api_key |-> get(y["captcha"], "api_key", c.captcha.api_key)]
                    ELSE c.captcha
        credentials_ ==
            IF "credentials" \in DOMAIN y
            THEN [first_name |-> get(y["credentials"], "first_name", c.credentials.first_name),
                  email |-> get(y["credentials"], "email", c.credentials.email),
                  phone_number |-> get(y["credentials"], "phone_number",
                                       c.credentials.phone_number)]
            ELSE c.credentials
        automation_ ==
            IF "automation" \in DOMAIN y
            THEN [headless |-> get(y["automation"], "headless", c.automation.headless),
                  typing_delay_min |-> get(y["automation"], "typing_delay_min",
                                           c.automation.typing_delay_min)]
            ELSE c.automation
        platform_ ==
            IF "platform" \in DOMAIN y
               /\ c.platform.api_url \in {"", "http://localhost:3001"}
            THEN [api_url |-> get(y["platform"], "api_url", c.platform.api_url)]
            ELSE c.platform
    IN  [c EXCEPT !.llm = llm_, !.captcha = captcha_, !.credentials = credentials_,
                  !.automation = automation_, !.platform = platform_]

\* the sections of update_from_platform: each section of the payload
\* replaces the whole section of the configuration, a key the payload
\* does not have taking the literal default (typing_delay_min is never
\* read from the payload)
update_sections(c, p) ==
    [c EXCEPT
       !.credentials =
           IF "credentials" \in DOMAIN p
           THEN [first_name |-> get(p["credentials"], "first_name", ""),
                 email |-> get(p["credentials"], "email", ""),
                 phone_number |-> get(p["credentials"], "phone_number", "")]
           ELSE @,
       !.llm =
           IF "llm" \in DOMAIN p
           THEN [api_key |-> get(p["llm"], "api_key", ""),
                 model |-> get(p["llm"], "model", "gpt-4o")]
           ELSE @,
       !.captcha =
           IF "captcha" \in DOMAIN p
           THEN [api_key |-> get(p["captcha"], "api_key", "")]
           ELSE @,
       !.automation =
           IF "automation" \in DOMAIN p
           THEN [headless |-> get(p["automation"], "headless", "False"),
                 typing_delay_min |-> "0.1"]
           ELSE @]

\* what an operation on the configuration leaves in the history
noted(op, payload, before, saved) ==
    [op |-> op, payload |-> payload, before |-> before, saved |-> saved,
     updates |-> config_op.updates + (IF op = "update_from_platform" THEN 1 ELSE 0)]

\* AgentConfig.save(): the object is written to agent_config.json
save ==
    /\ config_files' = [config_files EXCEPT !.json = <<model_dump(config)>>]
    /\ config_op' = noted("save", << >>, config, <<config>>)
    /\ UNCHANGED <<config, channelVars, agentVars, utilVars, loopVars, llm, parsed, bot,
                   updater, vision>>

\* AgentConfig.load(): the JSON file if there is one, then the YAML file
load ==
    /\ LET loaded == IF config_files.json = <<>> THEN DefaultConfig
                     ELSE from_json(config_files.json[1])
       IN  config' = IF config_files.yaml = <<>> THEN loaded
                     ELSE merge_yaml(loaded, config_files.yaml[1])
    /\ config_op' = noted("load", << >>, config, config_op.saved)
    /\ UNCHANGED <<config_files, channelVars, agentVars, utilVars, loopVars, llm, parsed,
                   bot, updater, vision>>

\* update_from_platform(payload): the sections, then save()
update_from_platform ==
    /\ config_op.updates < MaxUpdates
    /\ \E payload \in Payloads :
          /\ config' = update_sections(config, payload)
          /\ config_files' = [config_files EXCEPT !.json = <<model_dump(config')>>]
          /\ config_op' = noted("update_from_platform", payload, config, <<config'>>)
    /\ UNCHANGED <<channelVars, agentVars, utilVars, loopVars, llm, parsed, bot,
                   updater, vision>>

\* an agent with a fresh or a registered configuration in memory, no JSON
\* file yet, and possibly a config/config.yaml
InitConfig ==
    /\ connected = FALSE
    /\ ws = None
    /\ should_run = TRUE
    /\ reconnecting = FALSE
    /\ outgoing_queue = <<>>
    /\ first_pc = "new"
    /\ rc = Idle
    /\ receive_loops = {}
    /\ spawned = 0
    /\ disconnect_pc = "idle"
    /\ in_flight = [c \in Callers |-> <<>>]
    /\ serverUp = TRUE
    /\ wire = <<>>
    /\ clock = 0
    /\ composed = 0
    /\ nsock = 0
    /\ closed = {}
    /\ enqueued = {}
    /\ delays = <<>>
    /\ status = "idle"
    /\ current_task = None
    /\ stop_task = FALSE
    /\ stop_agent = FALSE
    /\ ws_client = FALSE
    /\ browser = FALSE
    /\ path = [p \in Paths |-> "none"]
    /\ handling = [p \in Paths |-> NoTask]
    /\ signup = NoSignup
    /\ inbox = <<>>
    /\ issued = 0
    /\ handed = <<>>
    /\ finished = {}
    /\ now = 0
    /\ circuit_breaker = CircuitBreaker(5, 60, 3)
    /\ cb_calls = 0
    /\ cb_log = NoCalls
    /\ retry = NoRetry
    /\ limiter = RateLimiter(2, 5, 0)
    /\ state = NoLoop
    /\ llm = Unused
    /\ parsed = Unused
    /\ bot = Unused
    /\ updater = Unused
    /\ vision = Unused
    /\ agent = Unused
    /\ config \in {DefaultConfig, RegisteredConfig}
    /\ \E yaml \in {<<>>} \cup {<<y>> : y \in YamlFiles} :
          config_files = [json |-> <<>>, yaml |-> yaml]
    /\ config_op = [op |-> "none", payload |-> << >>, before |-> DefaultConfig,
                    saved |-> <<>>, updates |-> 0]

NextConfig ==
    \/ save
    \/ load
    \/ update_from_platform

SpecConfig == InitConfig /\ [][NextConfig]_vars

----------------------------------------------------------------------------
(* InboxHunterAgent: the restart command                                   *)
(*                                                                         *)
(* restart() is awaited inline by _handle_command, inside the coroutine    *)
(* that received the command: the receive task of the channel or the run() *)
(* that polls process_messages.  The layer follows every coroutine from    *)
(* await to await.  task.cancel() marks the task; the CancelledError is    *)
(* delivered at the await the task is suspended in (agent_cancelled).  The *)
(* platform accepts every connection.                                      *)

\* restart commands the platform sends
MaxRestarts == 1
\* tasks the platform sends while the agent restarts
MaxWork == 1

\* the PlatformWebSocket objects the agent creates: one per run()
ChannelIds == 1..(MaxRestarts + 1)
\* the times the user chooses Start in the tray menu
MaxStarts == 1
\* coroutine 0 is the run() the program has called, coroutine k the
\* _receive_task of channel k, and the coroutines after them are the
\* run() calls that Start schedules on the event loop
CoroutineIds == 0..(MaxRestarts + 1 + MaxStarts)
StartIds == (MaxRestarts + 2)..(MaxRestarts + 1 + MaxStarts)

\* a PlatformWebSocket that does not exist yet, and one after __init__
NoChannel == [should_run |-> FALSE, connected |-> FALSE, ws |-> FALSE, heartbeat |-> "none"]
PlatformWebSocket == [should_run |-> TRUE, connected |-> FALSE, ws |-> FALSE, heartbeat |-> "none"]

\* a coroutine: the await it is suspended in (pc), the run() frames on its
\* stack that are inside their try block (runs), the caller of the
\* cleanup() it is in (why), the channel it connects or disconnects (on)
\* and a cancel() that has not been delivered yet (must_cancel)
NoCoroutine == [pc |-> "none", runs |-> 0, why |-> "none", on |-> 0, must_cancel |-> FALSE]

\* run() returns to its caller: restart(), which returns through
\* _handle_command and _handle_message to the loop that received the
\* command, or the program
run_returns(a, c) ==
    LET runs == a.co[c].runs - 1
    IN [a EXCEPT !.co[c].runs = runs,
                 !.co[c].pc = IF runs > 0 THEN "run"
                              ELSE IF c \in ChannelIds THEN "recv" ELSE "ended",
                 !.co[c].why = "none",
                 !.co[c].on = 0]

\* cleanup(), after disconnect() has returned: _ws_client = None, status
\* idle; restart() goes on to sleep 2 s, the finally block of run() is done
cleanup_done(a, c) ==
    LET b == [a EXCEPT !.ws_client = 0, !.status = "idle"]
    IN IF a.co[c].why = "restart"
       THEN [b EXCEPT !.co[c].pc = "sleep", !.co[c].why = "none", !.co[c].on = 0]
       ELSE run_returns(b, c)

\* disconnect(), `if self._ws:` awaits close()
disconnect_ws(a, c, k) ==
    IF a.channels[k].ws
    THEN [a EXCEPT !.co[c].pc = "ws_close", !.co[c].on = k]
    ELSE cleanup_done(a, c)

\* disconnect(), `if self._receive_task:` cancels the task and awaits it.
\* A task that has ended is awaited without suspending.  The task may be
\* the caller itself.
disconnect_receive(a, c, k) ==
    IF a.co[k].pc \in {"none", "ended"}
    THEN disconnect_ws(a, c, k)
    ELSE [a EXCEPT !.co[k].must_cancel = TRUE,
                   !.co[c].pc = "await_receive",
                   !.co[c].on = k]

\* PlatformWebSocket.disconnect() up to its first await: the flags are
\* cleared, the heartbeat task is cancelled (its loop breaks on
\* CancelledError) and awaited
channel_disconnect(a, c, k) ==
    LET b == [a EXCEPT !.channels[k].should_run = FALSE, !.channels[k].connected = FALSE]
    IN IF a.channels[k].heartbeat = "running"
       THEN [b EXCEPT !.channels[k].heartbeat = "ended",
                      !.co[c].pc = "await_heartbeat",
                      !.co[c].on = k]
       ELSE disconnect_receive(b, c, k)

\* cleanup(), after the browser: `if self._ws_client:` disconnect
cleanup_channel(a, c) ==
    IF a.ws_client # 0 THEN channel_disconnect(a, c, a.ws_client) ELSE cleanup_done(a, c)

\* cleanup() as called by `why`, up to its first await
agent_cleanup(a, c, why) ==
    LET b == [a EXCEPT !.co[c].why = why]
    IN IF a.browser THEN [b EXCEPT !.co[c].pc = "browser_close"] ELSE cleanup_channel(b, c)

\* the loop a coroutine is in when its handler has returned
loop_of(a, c) == IF a.co[c].runs > 0 THEN "run" ELSE "recv"

\* restart(), up to its first await: stop() sets both flags and the status
\* and waits while there is a current task; then cleanup().  restarts and
\* via are history: the commands received and the loop that received the
\* last one.
restart(a, c) ==
    LET b == [a EXCEPT !.stop_agent = TRUE, !.stop_task = TRUE, !.status = "stopping",
                       !.restarts = @ + 1, !.via = loop_of(a, c)]
    IN IF a.current_task
       THEN [b EXCEPT !.co[c].pc = "stop_wait"]
       ELSE agent_cleanup(b, c, "restart")

\* _handle_task, the finally block
task_finally(a) ==
    [a EXCEPT !.current_task = FALSE, !.stop_task = FALSE,
              !.status = IF a.stop_agent THEN @ ELSE "connected"]

\* a CancelledError leaves restart() or _handle_task: `except Exception`
\* does not catch it; the run() whose loop received the message catches
\* it and runs its finally block, a receive task ends
unwind(a, c) ==
    IF a.co[c].runs > 0 THEN agent_cleanup(a, c, "run") ELSE [a EXCEPT !.co[c].pc = "ended"]

\* the platform sends a task or a restart command on an open connection
platform_sends ==
    /\ agent.pc = "running"
    /\ \E k \in ChannelIds, m \in {"task", "restart"} :
          /\ agent.channels[k].ws
          /\ Len(agent.inbox[k]) < MaxInbox
          /\ agent.sent[m] < (IF m = "task" THEN MaxWork ELSE MaxRestarts)
          /\ agent' = [agent EXCEPT !.inbox[k] = Append(@, m), !.sent[m] = @ + 1]
    /\ UNCHANGED <<state, channelVars, agentVars, utilVars, appVars>>

\* recv() returns a message to the receive loop of channel c (`while
\* self._should_run and self._ws`) or to process_messages, called by a
\* run() loop (`while not self._stop_agent`, `if self._ws_client`, `if not
\* self._connected or not self._ws: return`); the handler runs to its
\* first await
agent_receives(c) ==
    /\ agent.pc = "running"
    /\ ~agent.co[c].must_cancel
    /\ \E k \in ChannelIds :
          /\ \/ /\ agent.co[c].pc = "recv"
                /\ k = c
                /\ agent.channels[k].should_run
                /\ agent.channels[k].ws
             \/ /\ agent.co[c].pc = "run"
                /\ ~agent.stop_agent
                /\ k = agent.ws_client
                /\ agent.channels[k].connected
                /\ agent.channels[k].ws
          /\ agent.inbox[k] # <<>>
          /\ LET a == [agent EXCEPT !.inbox[k] = Tail(@)]
             IN agent' = IF Head(agent.inbox[k]) = "task"
                         THEN [a EXCEPT !.current_task = TRUE, !.stop_task = FALSE,
                                        !.status = "running", !.browser = TRUE,
                                        !.co[c].pc = "handling"]
                         ELSE restart(a, c)
    /\ UNCHANGED <<state, channelVars, agentVars, utilVars, appVars>>

\* the executor returns, having closed its browser; _handle_task runs its
\* finally block and returns to the loop
task_returns(c) ==
    /\ agent.co[c].pc = "handling"
    /\ ~agent.co[c].must_cancel
    /\ agent' = [task_finally(agent) EXCEPT !.browser = FALSE, !.co[c].pc = loop_of(agent, c)]
    /\ UNCHANGED <<state, channelVars, agentVars, utilVars, appVars>>

\* stop(): the wait of up to 30 s ends, because _current_task is None or
\* because the time is over
stop_wait_ends(c) ==
    /\ agent.co[c].pc = "stop_wait"
    /\ ~agent.co[c].must_cancel
    /\ \E timed_out \in BOOLEAN :
          /\ timed_out \/ ~agent.current_task
          /\ agent' = agent_cleanup(agent, c, "restart")
    /\ UNCHANGED <<state, channelVars, agentVars, utilVars, appVars>>

\* cleanup(): _browser.close() returns
browser_close_returns(c) ==
    /\ agent.co[c].pc = "browser_close"
    /\ ~agent.co[c].must_cancel
    /\ agent' = cleanup_channel([agent EXCEPT !.browser = FALSE], c)
    /\ UNCHANGED <<state, channelVars, agentVars, utilVars, appVars>>

\* disconnect(): the cancelled heartbeat task has ended
heartbeat_awaited(c) ==
    /\ agent.co[c].pc = "await_heartbeat"
    /\ ~agent.co[c].must_cancel
    /\ agent' = disconnect_receive(agent, c, agent.co[c].on)
    /\ UNCHANGED <<state, channelVars, agentVars, utilVars, appVars>>

\* disconnect(): the receive task it awaits has ended
receive_task_awaited(c) ==
    /\ agent.co[c].pc = "await_receive"
    /\ ~agent.co[c].must_cancel
    /\ agent.co[agent.co[c].on].pc = "ended"
    /\ agent' = disconnect_ws(agent, c, agent.co[c].on)
    /\ UNCHANGED <<state, channelVars, agentVars, utilVars, appVars>>

\* disconnect(): close() has returned, _ws = None
ws_closed(c) ==
    /\ agent.co[c].pc = "ws_close"
    /\ ~agent.co[c].must_cancel
    /\ LET k == agent.co[c].on
       IN agent' = cleanup_done([agent EXCEPT !.channels[k].ws = FALSE, !.inbox[k] = <<>>], c)
    /\ UNCHANGED <<state, channelVars, agentVars, utilVars, appVars>>

\* restart(): the 2 s are over and run() is called: it clears both stop
\* flags; connect_to_platform sets the status, stores a new
\* PlatformWebSocket in _ws_client and awaits its connect().  A run() loop
\* tests _stop_agent every 0.2 s at most while it polls: in the 2 s every
\* polling loop has seen the flag.
sleep_ends(c) ==
    /\ agent.co[c].pc = "sleep"
    /\ ~agent.co[c].must_cancel
    /\ \A d \in CoroutineIds : ~(agent.co[d].pc = "run" /\ agent.stop_agent)
    /\ \E k \in ChannelIds :
          /\ agent.channels[k] = NoChannel
          /\ \A j \in ChannelIds : j < k => agent.channels[j] # NoChannel
          /\ agent' = [agent EXCEPT !.stop_agent = FALSE, !.stop_task = FALSE,
                                    !.status = "connecting",
                                    !.ws_client = k,
                                    !.channels[k] = PlatformWebSocket,
                                    !.co[c].pc = "connect",
                                    !.co[c].on = k]
    /\ UNCHANGED <<state, channelVars, agentVars, utilVars, appVars>>

\* connect() returns True: the socket is open, the heartbeat and receive
\* tasks are created; run() enters its loop
connect_returns(c) ==
    /\ agent.co[c].pc = "connect"
    /\ ~agent.co[c].must_cancel
    /\ LET k == agent.co[c].on
       IN agent' = [agent EXCEPT !.channels[k].ws = TRUE,
                                 !.channels[k].connected = TRUE,
                                 !.channels[k].heartbeat = "running",
                                 !.co[k] = [NoCoroutine EXCEPT !.pc = "recv"],
                                 !.status = "connected",
                                 !.co[c].pc = "run",
                                 !.co[c].runs = @ + 1,
                                 !.co[c].on = 0]
    /\ UNCHANGED <<state, channelVars, agentVars, utilVars, appVars>>

\* run(): the loop sees _stop_agent; the finally block calls cleanup()
run_loop_exits(c) ==
    /\ agent.co[c].pc = "run"
    /\ ~agent.co[c].must_cancel
    /\ agent.stop_agent
    /\ agent' = agent_cleanup(agent, c, "run")
    /\ UNCHANGED <<state, channelVars, agentVars, utilVars, appVars>>

\* _receive_loop: the loop condition is false and the task ends
receive_loop_ends(c) ==
    /\ agent.co[c].pc = "recv"
    /\ c # 0
    /\ ~agent.co[c].must_cancel
    /\ ~(agent.channels[c].should_run /\ agent.channels[c].ws)
    /\ agent' = [agent EXCEPT !.co[c].pc = "ended"]
    /\ UNCHANGED <<state, channelVars, agentVars, utilVars, appVars>>

\* the CancelledError of a cancel() is raised at the await the task is
\* suspended in.  recv(), the executor, the sleeps, connect() and
\* _browser.close() let it through; the two `except CancelledError: pass`
\* and the bare `except:` of disconnect() swallow it and disconnect() goes
\* on; run() catches it around its loop and runs its finally block.
agent_cancelled ==
    /\ agent.pc = "running"
    /\ \E c \in CoroutineIds :
          /\ agent.co[c].must_cancel
          /\ LET a == [agent EXCEPT !.co[c].must_cancel = FALSE]
                 pc == agent.co[c].pc
                 k == agent.co[c].on
             IN agent' =
                  CASE pc = "recv" -> [a EXCEPT !.co[c].pc = "ended"]
                    [] pc = "handling" -> unwind(task_finally(a), c)
                    [] pc \in {"stop_wait", "sleep", "connect"} -> unwind(a, c)
                    [] pc = "browser_close" ->
                         IF a.co[c].why = "run"
                         THEN unwind([a EXCEPT !.co[c].runs = @ - 1], c)
                         ELSE unwind(a, c)
                    [] pc = "await_heartbeat" -> disconnect_receive(a, c, k)
                    [] pc = "await_receive" -> disconnect_ws(a, c, k)
                    [] pc = "ws_close" ->
                         cleanup_done([a EXCEPT !.channels[k].ws = FALSE, !.inbox[k] = <<>>], c)
                    [] pc = "run" -> agent_cleanup(a, c, "run")
                    [] OTHER -> a
    /\ UNCHANGED <<state, channelVars, agentVars, utilVars, appVars>>

\* run() has connected: the receive task of channel 1 waits in recv() and
\* the loop of run() polls process_messages
InitRestart ==
    /\ connected = FALSE
    /\ ws = None
    /\ should_run = TRUE
    /\ reconnecting = FALSE
    /\ outgoing_queue = <<>>
    /\ first_pc = "new"
    /\ rc = Idle
    /\ receive_loops = {}
    /\ spawned = 0
    /\ disconnect_pc = "idle"
    /\ in_flight = [c \in Callers |-> <<>>]
    /\ serverUp = TRUE
    /\ wire = <<>>
    /\ clock = 0
    /\ composed = 0
    /\ nsock = 0
    /\ closed = {}
    /\ enqueued = {}
    /\ delays = <<>>
    /\ status = "idle"
    /\ current_task = None
    /\ stop_task = FALSE
    /\ stop_agent = FALSE
    /\ ws_client = FALSE
    /\ browser = FALSE
    /\ path = [p \in Paths |-> "none"]
    /\ handling = [p \in Paths |-> NoTask]
    /\ signup = NoSignup
    /\ inbox = <<>>
    /\ issued = 0
    /\ handed = <<>>
    /\ finished = {}
    /\ now = 0
    /\ circuit_breaker = CircuitBreaker(5, 60, 3)
    /\ cb_calls = 0
    /\ cb_log = NoCalls
    /\ retry = NoRetry
    /\ limiter = RateLimiter(2, 5, 0)
    /\ state = NoLoop
    /\ llm = Unused
    /\ parsed = Unused
    /\ bot = Unused
    /\ updater = Unused
    /\ config = Unused
    /\ config_files = Unused
    /\ config_op = Unused
    /\ vision = Unused
    /\ agent = [pc |-> "running",
                stop_agent |-> FALSE,
                stop_task |-> FALSE,
                status |-> "connected",
                current_task |-> FALSE,
                browser |-> FALSE,
                ws_client |-> 1,
                channels |-> [k \in ChannelIds |->
                                 IF k = 1
                                 THEN [should_run |-> TRUE, connected |-> TRUE, ws |-> TRUE,
                                       heartbeat |-> "running"]
                                 ELSE NoChannel],
                co |-> [c \in CoroutineIds |->
                           IF c = 0 THEN [NoCoroutine EXCEPT !.pc = "run", !.runs = 1]
                           ELSE IF c = 1 THEN [NoCoroutine EXCEPT !.pc = "recv"]
                           ELSE NoCoroutine],
                inbox |-> [k \in ChannelIds |-> <<>>],
                sent |-> [m \in {"task", "restart"} |-> 0],
                restarts |-> 0,
                via |-> "none",
                starts |-> 0]

NextRestart ==
    \/ platform_sends
    \/ \E c \in CoroutineIds : agent_receives(c)
    \/ \E c \in CoroutineIds : task_returns(c)
    \/ \E c \in CoroutineIds : stop_wait_ends(c)
    \/ \E c \in CoroutineIds : browser_close_returns(c)
    \/ \E c \in CoroutineIds : heartbeat_awaited(c)
    \/ \E c \in CoroutineIds : receive_task_awaited(c)
    \/ \E c \in CoroutineIds : ws_closed(c)
    \/ \E c \in CoroutineIds : sleep_ends(c)
    \/ \E c \in CoroutineIds : connect_returns(c)
    \/ \E c \in CoroutineIds : run_loop_exits(c)
    \/ \E c \in CoroutineIds : receive_loop_ends(c)
    \/ agent_cancelled

SpecRestart == InitRestart /\ [][NextRestart]_vars

\* the tray menu shows Start while the status is idle, connected or error;
\* Start schedules agent.run() on the event loop (main.py:134-135), which
\* runs to its first await like the run() of restart(): the stop flags are
\* cleared, a new PlatformWebSocket is stored in _ws_client and its
\* connect() awaited
start ==
    /\ agent.pc = "running"
    /\ agent.starts < MaxStarts
    /\ agent.status \in {"idle", "connected", "error"}
    /\ \E c \in StartIds, k \in ChannelIds :
          /\ agent.co[c].pc = "none"
          /\ \A d \in StartIds : d < c => agent.co[d].pc # "none"
          /\ agent.channels[k] = NoChannel
          /\ \A j \in ChannelIds : j < k => agent.channels[j] # NoChannel
          /\ agent' = [agent EXCEPT !.stop_agent = FALSE, !.stop_task = FALSE,
                                    !.status = "connecting",
                                    !.ws_client = k,
                                    !.channels[k] = PlatformWebSocket,
                                    !.co[c].pc = "connect",
                                    !.co[c].on = k,
                                    !.starts = @ + 1]
    /\ UNCHANGED <<state, channelVars, agentVars, utilVars, appVars>>

\* the agent with a user who chooses Start
NextStart ==
    \/ NextRestart
    \/ start

SpecStart == InitRestart /\ [][NextStart]_vars

----------------------------------------------------------------------------
(* AIAgentOrchestrator: when a step of execute_signup takes a screenshot   *)

\* the steps of execute_signup that are followed (max_steps of the layer)
MaxVisionSteps == 6

\* _should_use_vision(step, last_action_success), with self.last_action_type
should_use_vision(step, last_action_type, last_action_success) ==
    IF step = 1 THEN TRUE
    ELSE IF last_action_type \in {"click", "submit", "wait"} THEN TRUE
    ELSE IF ~last_action_success THEN TRUE
    ELSE IF step % 5 = 0 THEN TRUE
    ELSE IF last_action_type = "fill_field" THEN FALSE
    ELSE TRUE

\* an AgentAction as recorded by state.add_action: its type, whether it
\* succeeded, whether its reasoning mentions a CAPTCHA, and the branch of
\* the loop that recorded it (history)
Recorded(action_type, success, captcha, by) ==
    [action_type |-> action_type, success |-> success, captcha |-> captcha, by |-> by]

\* state.add_action, keeping actions_taken[-3:], all the loop reads of it
recorded(v, action) ==
    LET all == Append(v.actions_taken, action)
    IN [v EXCEPT !.actions_taken = IF Len(all) > 3 THEN Tail(all) ELSE all]

\* (loop_exit of the layer is history: the exit the loop took)
\* `continue` after an in-loop CAPTCHA solve or bypass click: the action
\* is recorded and current_step incremented; lines 353-355 are not reached
continues(v, action) ==
    [recorded(v, action) EXCEPT !.current_step = @ + 1, !.pc = "top",
                                 !.next_action = "none", !.captcha = FALSE]

\* the top of the loop: while not complete and current_step <= max_steps,
\* the stop check, then use_vision is decided and the page observed
observe_page ==
    /\ vision.pc = "top"
    /\ IF vision.current_step > MaxVisionSteps
       THEN vision' = [vision EXCEPT !.pc = "done", !.loop_exit = "max_steps"]
       ELSE \E stop_requested_now \in BOOLEAN :
               vision' = IF stop_requested_now
                         THEN [vision EXCEPT !.pc = "done", !.loop_exit = "stop"]
                         ELSE [vision EXCEPT
                                  !.pc = "reason",
                                  !.use_vision = should_use_vision(vision.current_step,
                                                                   vision.last_action_type,
                                                                   vision.last_action_success)]
    /\ UNCHANGED <<channelVars, agentVars, utilVars, loopVars, llm, parsed, bot, updater,
                   config, config_files, config_op>>

\* _reason_next_action returns None (break) or an action; a wait whose
\* reasoning mentions a CAPTCHA goes to _handle_captcha_in_agent first
next_action_decided ==
    /\ vision.pc = "reason"
    /\ \/ vision' = [vision EXCEPT !.pc = "done", !.loop_exit = "no_action"]
       \/ \E action_type \in ActionTypes, captcha \in BOOLEAN :
             vision' = [vision EXCEPT
                           !.next_action = action_type,
                           !.captcha = captcha,
                           !.pc = IF captcha /\ action_type = "wait" THEN "captcha" ELSE "act"]
    /\ UNCHANGED <<channelVars, agentVars, utilVars, loopVars, llm, parsed, bot, updater,
                   config, config_files, config_op>>

\* _handle_captcha_in_agent returns: solved, a bypass button (clicked with
\* or without success) or nothing; when nothing worked the loop gives up
\* after three CAPTCHA waits in actions_taken[-3:], else executes the wait
captcha_handled ==
    /\ vision.pc = "captcha"
    /\ \E outcome \in {"solved", "bypass_clicked", "bypass_failed", "nothing"} :
          vision' =
             CASE outcome = "solved" ->
                     continues(vision, Recorded("wait", TRUE, TRUE, "captcha"))
               [] outcome = "bypass_clicked" ->
                     continues(vision, Recorded("click", TRUE, FALSE, "bypass"))
               [] OTHER ->
                     IF Len(vision.actions_taken) = 3
                        /\ \A i \in 1..3 : /\ vision.actions_taken[i].action_type = "wait"
                                           /\ vision.actions_taken[i].captcha
                     THEN [vision EXCEPT !.pc = "done", !.loop_exit = "captcha"]
                     ELSE [vision EXCEPT !.pc = "act"]
    /\ UNCHANGED <<channelVars, agentVars, utilVars, loopVars, llm, parsed, bot, updater,
                   config, config_files, config_op>>

\* _execute_action returns: the action is recorded, the two tracking
\* values are updated (353-355); complete ends the loop, the stuck checks
\* may end it, otherwise the next step follows
action_executed ==
    /\ vision.pc = "act"
    /\ \E success \in BOOLEAN, stuck \in BOOLEAN :
          LET v == [recorded(vision, Recorded(vision.next_action, success, vision.captcha, "act"))
                       EXCEPT !.last_action_success = success,
                              !.last_action_type = vision.next_action,
                              !.next_action = "none",
                              !.captcha = FALSE]
          IN vision' = IF vision.next_action = "complete" \/ stuck
                       THEN [v EXCEPT !.pc = "done",
                                      !.loop_exit = IF vision.next_action = "complete"
                                                    THEN "complete" ELSE "stuck"]
                       ELSE [v EXCEPT !.pc = "top", !.current_step = @ + 1]
    /\ UNCHANGED <<channelVars, agentVars, utilVars, loopVars, llm, parsed, bot, updater,
                   config, config_files, config_op>>

\* execute_signup enters its loop: current_step 1, last_action_success
\* True, last_action_type None
InitVision ==
    /\ connected = FALSE
    /\ ws = None
    /\ should_run = TRUE
    /\ reconnecting = FALSE
    /\ outgoing_queue = <<>>
    /\ first_pc = "new"
    /\ rc = Idle
    /\ receive_loops = {}
    /\ spawned = 0
    /\ disconnect_pc = "idle"
    /\ in_flight = [c \in Callers |-> <<>>]
    /\ serverUp = TRUE
    /\ wire = <<>>
    /\ clock = 0
    /\ composed = 0
    /\ nsock = 0
    /\ closed = {}
    /\ enqueued = {}
    /\ delays = <<>>
    /\ status = "idle"
    /\ current_task = None
    /\ stop_task = FALSE
    /\ stop_agent = FALSE
    /\ ws_client = FALSE
    /\ browser = FALSE
    /\ path = [p \in Paths |-> "none"]
    /\ handling = [p \in Paths |-> NoTask]
    /\ signup = NoSignup
    /\ inbox = <<>>
    /\ issued = 0
    /\ handed = <<>>
    /\ finished = {}
    /\ now = 0
    /\ circuit_breaker = CircuitBreaker(5, 60, 3)
    /\ cb_calls = 0
    /\ cb_log = NoCalls
    /\ retry = NoRetry
    /\ limiter = RateLimiter(2, 5, 0)
    /\ state = NoLoop
    /\ llm = Unused
    /\ parsed = Unused
    /\ bot = Unused
    /\ updater = Unused
    /\ config = Unused
    /\ config_files = Unused
    /\ config_op = Unused
    /\ agent = Unused
    /\ vision = [pc |-> "top",
                 current_step |-> 1,
                 last_action_type |-> "None",
                 last_action_success |-> TRUE,
                 use_vision |-> FALSE,
                 next_action |-> "none",
                 captcha |-> FALSE,
                 actions_taken |-> <<>>,
                 loop_exit |-> "none"]

NextVision ==
    \/ observe_page
    \/ next_action_decided
    \/ captcha_handled
    \/ action_executed

SpecVision == InitVision /\ [][NextVision]_vars

----------------------------------------------------------------------------
(* Claims about the outbound path, checked under SpecQueue *)

\* the messages on the wire that went through _send's callers other than
\* connect(); the status message of connect() is never queued
Transmitted == SelectSeq(wire, LAMBDA m : m.type # "status")

\* the messages _flush_queue has taken out and is sending
BeingSent == {Timestamp(in_flight[c][1].msg) : c \in {x \in Callers : in_flight[x] # <<>>}}

\* C6: no queued outbound message is ever lost: a message placed in the
\* offline queue leaves it only by being transmitted, so every message ever
\* put on the queue is still in the queue or has reached the platform.
C6_NoQueuedMessageLost ==
    \A e \in enqueued :
        e.ts \in Timestamps(outgoing_queue) \cup Timestamps(Transmitted) \cup BeingSent

\* the time of the latest successful connect: the timestamp of the status
\* message connect() sends first on the new socket
LastConnectTime ==
    LET S == {i \in 1..Len(wire) : wire[i].type = "status"}
    IN  IF S = {} THEN 0
        ELSE Timestamp(wire[CHOOSE i \in S : \A j \in S : j <= i])

\* messages composed while disconnected (queued at line 267) before time t
ComposedOffline(t) == {e.ts : e \in {x \in enqueued : x.line = 267 /\ x.ts <= t}}

\* C7: once the flush that follows a successful connect has ended, every
\* message composed while disconnected before that connect has been
\* transmitted, and these messages are on the wire in the order in which
\* they were composed, none skipped and none reordered.
C7_OfflineFlushedInOrder ==
    (nsock > 0 /\ first_pc # "flushing" /\ rc.pc # "flushing") =>
        /\ ComposedOffline(LastConnectTime) \subseteq Timestamps(Transmitted)
        /\ \A t1, t2 \in ComposedOffline(LastConnectTime) \cap Timestamps(Transmitted) :
               t1 < t2 => PosOf(Transmitted, t1) < PosOf(Transmitted, t2)

\* C10: every message the agent transmits is a JSON object with a `type`
\* key naming the kind and a `data` key holding the payload object.
C10_EveryMessageIsEnvelope ==
    \A i \in 1..Len(wire) :
        /\ {"type", "data"} \subseteq DOMAIN wire[i]
        /\ wire[i].type \in {"status", "heartbeat", "result", "log", "request_task"}

----------------------------------------------------------------------------
(* Claims about reconnection, checked under SpecBackoff and SpecReconnectFair *)

\* the delay the claim gives for the n-th consecutive failed attempt
C8_Expected(n) ==
    CASE n = 1 -> 5 [] n = 2 -> 10 [] n = 3 -> 20 [] n = 4 -> 40 [] OTHER -> 60

\* C8: within one reconnection episode the delay slept after the n-th
\* consecutive failed connection attempt is min(5 * 2^(n-1), 60) seconds,
\* that is 5, 10, 20, 40, 60, 60, ..., and never more than 60 seconds.
C8_BackoffDelays ==
    \A n \in 1..Len(delays) :
        delays[n] = C8_Expected(n) /\ delays[n] <= 60

\* six attempts of one episode have failed, and the sixth delay is capped
C8_Witness ==
    /\ rc.pc = "sleeping"
    /\ Len(delays) = 6
    /\ delays[5] = 60
    /\ delays[6] = 60

\* the client holds an open socket and says it is connected
Live == connected /\ ws # None /\ ws \notin closed

\* the socket of the client has been closed under it
Lost == ws # None /\ ws \in closed

\* C9, checked under SpecReconnectFair: after an unexpected close the
\* client keeps attempting to connect, with no limit on the attempts: when
\* the platform becomes reachable for good and disconnect() is never
\* called, the client is connected again, whichever receive path saw the
\* close.
C9_EventuallyReconnected ==
    (<>[]serverUp /\ []should_run) => [](Lost => <>Live)

----------------------------------------------------------------------------
(* Claims about task dispatch, checked under Spec *)

\* the receive paths whose _handle_task has not returned
Executing == {p \in Paths : handling[p] # NoTask}

----------------------------------------------------------------------------
(* Claims about the signup executor, checked under SpecSignup *)

ExecuteSignupOver == signup.pc \in {"closing", "returned"} /\ signup.loop_exit # "none"

----------------------------------------------------------------------------
(* Claims about the circuit breaker, checked under SpecBreaker *)

\* C11: starting from closed, the breaker becomes open exactly when
\* failure_threshold record_failure calls have occurred with no
\* record_success between them: a closed breaker has seen fewer
\* consecutive failures than the threshold, the call that opens it is the
\* record_failure that makes them equal, and an open breaker refuses
\* can_execute while the recovery timeout has not elapsed.
C11_OpensAtThreshold ==
    /\ circuit_breaker.state = "closed" =>
           cb_log.consecutive < circuit_breaker.failure_threshold
    /\ cb_log.last.before = "closed" =>
           (circuit_breaker.state = "open" <=>
               /\ cb_log.last.op = "record_failure"
               /\ cb_log.consecutive = circuit_breaker.failure_threshold)
    /\ cb_log.last.before = "closed" => circuit_breaker.state \in {"closed", "open"}
    /\ (/\ cb_log.last.op = "can_execute"
        /\ cb_log.last.before = "open"
        /\ cb_log.last.elapsed < circuit_breaker.recovery_timeout) =>
           ~cb_log.last.returned

\* the third consecutive failure has opened a breaker of threshold 3
C11_Witness ==
    /\ circuit_breaker.failure_threshold = 3
    /\ circuit_breaker.state = "open"
    /\ cb_log.last.before = "closed"
    /\ cb_log.last.op = "record_failure"
    /\ cb_log.consecutive = 3

\* C12: while the breaker is open, can_execute returns false as long as
\* less than recovery_timeout has elapsed since the last recorded failure
\* and leaves the breaker open; the first call after that time returns
\* true and moves the breaker to half_open.
C12_OpenUntilRecoveryTimeout ==
    (cb_log.last.op = "can_execute" /\ cb_log.last.before = "open") =>
        /\ cb_log.last.returned <=>
               cb_log.last.elapsed >= circuit_breaker.recovery_timeout
        /\ circuit_breaker.state =
               IF cb_log.last.returned THEN "half_open" ELSE "open"

\* can_execute is called exactly recovery_timeout after the last failure
C12_Witness ==
    /\ cb_log.last.op = "can_execute"
    /\ cb_log.last.before = "open"
    /\ cb_log.last.elapsed = circuit_breaker.recovery_timeout
    /\ circuit_breaker.state = "half_open"

\* C13: from half_open the breaker returns to closed after
\* half_open_max_calls recorded successes and goes back to open on any
\* recorded failure; no other call makes it leave half_open.
C13_HalfOpenTransitions ==
    cb_log.last.before = "half_open" =>
        CASE cb_log.last.op = "record_failure" -> circuit_breaker.state = "open"
          [] cb_log.last.op = "record_success" ->
                circuit_breaker.state =
                    IF cb_log.trial_successes = circuit_breaker.half_open_max_calls
                    THEN "closed" ELSE "half_open"
          [] OTHER -> circuit_breaker.state = "half_open"

\* the second success of a half_open period has closed a breaker whose
\* half_open_max_calls is 2
C13_Witness ==
    /\ circuit_breaker.half_open_max_calls = 2
    /\ cb_log.last.before = "half_open"
    /\ cb_log.last.op = "record_success"
    /\ circuit_breaker.state = "closed"

\* C14: between entering half_open and leaving it, can_execute returns
\* true for at most half_open_max_calls calls, also when several callers
\* check the gate before any of them has recorded an outcome.
C14_HalfOpenAdmitsLimitedCalls ==
    circuit_breaker.state = "half_open" =>
        cb_log.admitted <= circuit_breaker.half_open_max_calls

----------------------------------------------------------------------------
(* Claims about retry_with_backoff, checked under SpecRetry *)

\* every invocation so far has raised a whitelisted exception
AlwaysRaises == \A i \in 1..Len(retry.outcomes) : retry.outcomes[i] = "whitelisted"

\* the delay the claim gives for retry k
C15_Expected(k) ==
    LET d == retry.base_delay * (retry.exponential_base ^ k)
    IN  IF d <= retry.max_delay THEN d ELSE retry.max_delay

\* C15: a wrapped function that always raises a whitelisted exception is
\* invoked exactly max_retries + 1 times, the delay before retry k, before
\* jitter, is min(base_delay * exponential_base^k, max_delay) for
\* k = 0 .. max_retries - 1, and the exception that leaves the wrapper is
\* the one raised by the last invocation.
C15_RetrySchedule ==
    AlwaysRaises =>
        /\ Len(retry.outcomes) <= retry.max_retries + 1
        /\ retry.pc = "raised" <=> Len(retry.outcomes) = retry.max_retries + 1
        /\ retry.pc = "raised" =>
               /\ retry.raised = retry.max_retries + 1
               /\ Len(retry.delays) = retry.max_retries
        /\ \A k \in 0..(Len(retry.delays) - 1) : retry.delays[k + 1] = C15_Expected(k)

\* base_delay 1, exponential_base 2, max_retries 3: four invocations,
\* delays 1, 2 and 4, and the fourth exception raised
C15_Witness ==
    /\ AlwaysRaises
    /\ retry.max_retries = 3
    /\ retry.base_delay = 1
    /\ retry.exponential_base = 2
    /\ retry.pc = "raised"
    /\ Len(retry.outcomes) = 4
    /\ retry.delays = <<1, 2, 4>>
    /\ retry.raised = 4

\* C16: with jitter enabled every sleep between retries is the delay
\* before jitter multiplied by a factor in [0.5, 1.0], so that no sleep
\* exceeds max_delay.
C16_JitterWithinHalfToOne ==
    (retry.jitter /\ retry.pc = "sleeping") =>
        LET delay == retry.delays[Len(retry.delays)]
        IN  /\ JitterGrid * delay <= retry.sleep
            /\ retry.sleep <= 2 * JitterGrid * delay
            /\ retry.sleep <= 2 * JitterGrid * retry.max_delay

----------------------------------------------------------------------------
(* Claims about the token bucket, checked under SpecLimiter *)

\* C17: the bucket never lets more than burst + rate * t calls of
\* acquire() complete in an interval of t seconds, here the interval since
\* the limiter was created, whichever coroutines call it, and the token
\* count stays within [0, burst].
C17_TokenBucketBound ==
    /\ 0 <= limiter.tokens
    /\ limiter.tokens <= limiter.burst * limiter.period
    /\ limiter.period * limiter.completed <=
           limiter.period * limiter.burst + (now - limiter.created)

----------------------------------------------------------------------------
(* Claims about the reasoning loop, checked under SpecLoop *)

\* each iteration begun has a step number of its own, the counter never
\* passes max_steps + 1, and _reason_next_action is called at most
\* max_steps times
StepsCounted ==
    /\ state.decisions <= max_steps
    /\ state.current_step <= max_steps + 1
    /\ state.iterations <= max_steps
    /\ state.pc \in {"reason", "act"} => state.iterations = state.current_step
    /\ state.pc = "top" => state.iterations = state.current_step - 1
    /\ state.pc = "done" => state.iterations <= state.current_step

\* C18, checked under SpecLoopFair: execute_signup always terminates
\* within max_steps = 30: every loop iteration that does not end the loop
\* increases the step counter, the CAPTCHA-solved and bypass-click paths
\* included, so at most 30 next-action decisions are requested whatever
\* the LLM returns, and the loop ends.
C18_TerminatesWithinMaxSteps == []StepsCounted /\ <>(state.pc = "done")

\* thirty decisions have been taken and the loop has ended at max_steps
C18_Witness ==
    /\ state.pc = "done"
    /\ state.loop_exit = "max_steps"
    /\ state.decisions = max_steps
    /\ state.current_step = max_steps + 1

\* C19: on a page that never shows a form input or a navigation button,
\* execute_signup ends with complete = true and success = false at or
\* before step 15: it never goes past step 15 and never reports success.
C19_NoFormGivesUpByStep15 ==
    state.barren =>
        /\ state.current_step <= 15
        /\ state.pc = "done" => (state.complete /\ ~state.success)

\* C20: when the loop ends because a selector has failed three times or
\* because max_steps is exhausted, the reported success is true if and
\* only if the page shows a success indicator at the moment the loop ends.
C20_SuccessIffIndicatorAtLoopEnd ==
    (state.pc = "done" /\ state.loop_exit \in {"stuck_selector", "max_steps"}) =>
        (state.success <=> state.indicator_at_end)


----------------------------------------------------------------------------
(* Claims about _reason_next_action, checked under SpecReason *)

\* C21: when the LLM call is rate-limited on its first attempt and on each
\* of its 3 retries, execute_signup returns success = false and the errors
\* of its result name the exhaustion of the rate limit.
C21_RateLimitExhaustionReported ==
    (llm.result.returned /\ llm.retry_attempt > max_rate_limit_retries) =>
        /\ ~llm.result.success
        /\ RateLimitExceeded \in llm.result.errors


----------------------------------------------------------------------------
(* Claims about parse_agent_response, checked under SpecParse *)

\* C22: parse_agent_response never raises: for every dictionary it returns
\* a valid AgentActionResponse, and that is a wait action whenever the
\* validation of the dictionary failed.
C22_ParseNeverRaises ==
    parsed.pc = "done" =>
        /\ ~parsed.outcome.raised
        /\ AgentActionResponse([action |-> Str(parsed.outcome.value.action),
                                reasoning |-> Str(parsed.outcome.value.reasoning),
                                confidence |-> parsed.outcome.value.confidence,
                                selector |-> parsed.outcome.value.selector]).ok
        /\ parsed.outcome.fixed => parsed.outcome.value.action = "wait"


----------------------------------------------------------------------------
(* Claims about the standalone bot, checked under SpecBot and SpecBotFair *)

\* C23: no url is attempted twice: the browser navigates at most once to a
\* url, never to one the datastore already had as processed, and at most
\* one SignUp record exists per url.
C23_NoUrlAttemptedTwice ==
    \A u \in Urls :
        /\ bot.navigations[u] <= 1
        /\ bot.db.signups[u] <= 1
        /\ u \in bot.db.processed => bot.navigations[u] = 0

C25_StopEndsPageActivity ==
    /\ [](bot.stop_seen => bot.after_stop = 0)
    /\ (bot.stop_seen ~> (bot.pc = "done" /\ bot.browser = "closed"))

\* the stop was seen after the navigation of the first of two ads; the
\* second ad was skipped and run() has ended
C25_Witness ==
    /\ bot.stop_seen
    /\ bot.pc = "done"
    /\ bot.browser = "closed"
    /\ Len(bot.ads) = 2
    /\ bot.handled = 2
    /\ bot.navigations[bot.ads[1]] = 1
    /\ bot.navigations[bot.ads[2]] = 0
    /\ bot.db.errors = {}


----------------------------------------------------------------------------
(* Claims about the updater, checked under SpecUpdater *)

\* the update was applied: the executable replaced or update.bat started
Applied == updater.executable # "current" \/ updater.update_bat # Nothing

\* C26: an update is applied only if the SHA-256 digest of the downloaded
\* file equals the checksum the server supplied; otherwise the update is
\* aborted, the downloaded file deleted and the executable untouched.
C26_AppliedOnlyIfChecksumMatches ==
    /\ Applied => SHA256(updater.download_path) = updater.update_info.checksum
    /\ (updater.pc = "done" /\ updater.download_path # Nothing
            /\ SHA256(updater.download_path) # updater.update_info.checksum)
           => ~Applied


----------------------------------------------------------------------------
(* Claims about the agent configuration, checked under SpecConfig *)

\* C27: update_from_platform leaves every value the payload does not
\* mention as it was (identity, platform urls, local flags, the sections
\* that are absent and the keys omitted inside a section that is present),
\* and the result is what agent_config.json holds afterwards.
C27_PartialPayloadKeepsTheRest ==
    config_op.op = "update_from_platform" =>
        /\ config.agent_id = config_op.before.agent_id
        /\ config.agent_token = config_op.before.agent_token
        /\ config.platform = config_op.before.platform
        /\ config.auto_start = config_op.before.auto_start
        /\ \A s \in Sections :
              IF s \in DOMAIN config_op.payload
              THEN \A f \in DOMAIN config[s] \ DOMAIN config_op.payload[s] :
                       config[s][f] = config_op.before[s][f]
              ELSE config[s] = config_op.before[s]
        /\ config_files.json = <<model_dump(config)>>
        /\ from_json(config_files.json[1]) = config

\* C28: a configuration that was saved and is then loaded has the same
\* agent_id, agent_token and credentials, with or without a
\* config/config.yaml at load time.
C28_SaveLoadRoundTrip ==
    (config_op.op = "load" /\ config_op.saved # <<>>) =>
        /\ config.agent_id = config_op.saved[1].agent_id
        /\ config.agent_token = config_op.saved[1].agent_token
        /\ config.credentials = config_op.saved[1].credentials


----------------------------------------------------------------------------
(* Claims about the restart command *)

\* a restart command has been received and nothing is left to happen: no
\* message waits, no task runs, no cancellation is pending, and every
\* coroutine polls in its loop, has ended or awaits a task that goes on
RestartSettled ==
    /\ agent.pc = "running"
    /\ agent.restarts > 0
    /\ ~agent.current_task
    /\ \A k \in ChannelIds : agent.inbox[k] = <<>>
    /\ \A c \in CoroutineIds :
          /\ ~agent.co[c].must_cancel
          /\ \/ agent.co[c].pc \in {"none", "ended"}
             \/ agent.co[c].pc = "recv" /\ agent.channels[c].should_run /\ agent.channels[c].ws
             \/ agent.co[c].pc = "run" /\ ~agent.stop_agent
             \/ agent.co[c].pc = "await_receive" /\ agent.co[agent.co[c].on].pc # "ended"

\* the agent is connected, one run() loop polls and the stop flag is clear
Restarted ==
    /\ agent.ws_client # 0
    /\ agent.channels[agent.ws_client].connected
    /\ agent.channels[agent.ws_client].ws
    /\ Cardinality({c \in CoroutineIds : agent.co[c].pc = "run"}) = 1
    /\ ~agent.stop_agent

\* every channel but the current one is shut down: flags cleared, socket
\* closed, heartbeat ended, and its receive task does not read any more
OldChannelsShutDown ==
    \A k \in ChannelIds :
       (k # agent.ws_client /\ agent.channels[k] # NoChannel) =>
          /\ ~agent.channels[k].should_run
          /\ ~agent.channels[k].connected
          /\ ~agent.channels[k].ws
          /\ agent.channels[k].heartbeat # "running"
          /\ agent.co[k].pc # "recv"

----------------------------------------------------------------------------
(* Claims about the use of vision *)

\* the action recorded by the step before the current one
LastRecorded == vision.actions_taken[Len(vision.actions_taken)]

\* the current step has decided on use_vision and follows a recorded action
StepFollowsAction == vision.pc = "reason" /\ vision.actions_taken # <<>>

\* C30: a step that immediately follows a click, submit or wait action or
\* a failed action observes the page with a screenshot, also when that
\* action was recorded by an in-loop CAPTCHA solve or a bypass click
C30_VisionAfterPageChange ==
    (/\ StepFollowsAction
     /\ \/ LastRecorded.action_type \in {"click", "submit", "wait"}
        \/ ~LastRecorded.success)
        => vision.use_vision


----------------------------------------------------------------------------
(* Claims about the CAPTCHA give-up of execute_signup *)

\* a recorded action is a CAPTCHA wait that went unresolved: the wait was
\* executed after _handle_captcha_in_agent had neither solved the CAPTCHA
\* nor clicked a bypass button
Unresolved(action) == action.action_type = "wait" /\ action.captcha /\ action.by = "act"

\* the CAPTCHA waits without resolution at the end of actions_taken[-3:]
UnresolvedAtEnd ==
    LET a == vision.actions_taken
        n == Len(a)
    IN IF n >= 1 /\ Unresolved(a[n])
       THEN IF n >= 2 /\ Unresolved(a[n - 1])
            THEN IF n >= 3 /\ Unresolved(a[n - 2]) THEN 3 ELSE 2
            ELSE 1
       ELSE 0

\* the loop gave up on the CAPTCHA although a wait among the last three
\* recorded actions had been resolved
AbortCountsResolved == vision.loop_exit = "captcha" /\ UnresolvedAtEnd < 3

\* a third unresolved CAPTCHA wait in a row is executed instead of ending
\* the attempt
ThirdWaitGoesOn ==
    /\ vision.pc = "act"
    /\ vision.next_action = "wait"
    /\ vision.captcha
    /\ UnresolvedAtEnd >= 2

\* C31: the attempt is aborted for the CAPTCHA exactly when the last three
\* actions are CAPTCHA waits that went unresolved: resolved waits do not
\* count, and the third unresolved wait aborts, not a later one
C31_CaptchaGiveUp == ~AbortCountsResolved /\ ~ThirdWaitGoesOn


----------------------------------------------------------------------------
(* Claims about the per-task stop flag *)

----------------------------------------------------------------------------
(* Claims about the agent after stop() *)

\* a step in which a receive path hands a task to an executor, or the
\* status becomes running
TaskStarts ==
    \/ \E p \in Paths : handling[p] = NoTask /\ handling'[p] # NoTask
    \/ status # "running" /\ status' = "running"

\* C33: once stop() has set the agent-stop flag, no task starts executing
\* and the status never becomes running, also when the receive loop of the
\* channel delivers a task before cleanup() has disconnected it
C33_NoTaskStartsAfterStop == [][stop_agent => ~TaskStarts]_vars


----------------------------------------------------------------------------
(* Claims about pause and resume *)

\* a step in which a receive path handles a resume command
ResumeHandled ==
    /\ inbox # <<>>
    /\ Head(inbox) = command_message("resume")
    /\ inbox' = Tail(inbox)

\* C34: after a pause command the status stays paused and no task is
\* handed to an executor until a resume command is handled; a task that
\* arrives or finishes meanwhile does not make the status running or
\* connected
C34_PausedUntilResume ==
    [][status = "paused" =>
          /\ status' = "paused" \/ ResumeHandled
          /\ \A p \in Paths : handling[p] = NoTask => handling'[p] = NoTask]_vars


----------------------------------------------------------------------------
(* Claims about the background tasks of the channel *)

\* the _heartbeat_loop tasks that are alive: connect() creates one with
\* every socket it opens and keeps only the latest in _heartbeat_task;
\* a loop ends when it finds _should_run False or when disconnect()
\* cancels it, and nothing else ends one
HeartbeatLoops == IF should_run THEN 1..nsock ELSE {}

\* C35: for one channel client at most one heartbeat loop is alive and at
\* most one receive loop waits on a socket that is open, however many
\* reconnects have occurred
C35_OneHeartbeatOneReceiveLoop ==
    /\ Cardinality(HeartbeatLoops) <= 1
    /\ Cardinality(receive_loops \ closed) <= 1


----------------------------------------------------------------------------
(* Claims about the channel after disconnect() *)

\* C36: once disconnect() has returned, is_connected stays False and the
\* program holds no open socket: no reconnection that was in flight or
\* starts later connects again
C36_StaysDisconnected ==
    disconnect_pc = "done" =>
       /\ ~(connected /\ ws # None)
       /\ InUse \ closed = {}


----------------------------------------------------------------------------
(* Claims about Start *)

\* the coroutines that poll in the loop of a run()
RunLoops == {c \in CoroutineIds : agent.co[c].pc = "run"}

\* the channels that are connected and whose receive task reads messages
LiveChannels ==
    {k \in ChannelIds : /\ agent.channels[k].connected
                        /\ agent.channels[k].ws
                        /\ agent.co[k].pc \in {"recv", "handling"}}

\* C37: Start, which the menu offers while the agent is connected, does
\* not create a second run() loop or a second live channel that delivers
\* tasks (as long as no restart command is involved)
C37_OneRunLoopOneChannel ==
    agent.restarts = 0 =>
       /\ Cardinality(RunLoops) <= 1
       /\ Cardinality(LiveChannels) <= 1


----------------------------------------------------------------------------
(* Claims about the browser of a signup task, checked under SpecSignup *)

----------------------------------------------------------------------------
(* Claims about the pacing of a stopped bot, checked under SpecBot *)

\* C39: after stop_check first returns true, run() sleeps no further
\* failure cooldown and no further delay between ads, and the ads skipped
\* because of the stop are not counted as consecutive failures
C39_NoPacingAfterStop ==
    /\ bot.waits_after_stop = {}
    /\ ~bot.stopped_counted


----------------------------------------------------------------------------
(* Claims about the run statistics of the bot, checked under SpecBot *)

\* no ad is being processed: _process_ad has returned for every ad taken
BetweenAds == bot.pc \in {"loop", "cooldown", "cleanup", "done"}

\* C40: after each ad has been handled, whatever the way it ended,
\* total_attempts = successful_signups + failed_attempts
C40_AttemptsAddUp ==
    BetweenAds =>
        bot.stats.total_attempts
            = bot.stats.successful_signups + bot.stats.failed_attempts

====
